---- MODULE Spec2Model ----
(***************************************************************************)
(* Quote-Session-Event reconciliation pipeline of the Babes Club commerce  *)
(* backend: the Stripe webhook handler, the nightly order sync and the     *)
(* dashboard order lookup, all writing Order Snapshots into one DynamoDB   *)
(* table.                                                                  *)
(*                                                                         *)
(* Strings the code inspects character by character (user identifiers,     *)
(* e-mail addresses, Stripe session identifiers) are sequences of          *)
(* one-character strings; an absent or empty value is the empty sequence   *)
(* (Python's falsy "" / None); quote signatures and cart hashes are such   *)
(* sequences too.  Opaque strings (event types, statuses) are TLA+         *)
(* strings, "" meaning absent.                                             *)
(***************************************************************************)
EXTENDS Integers, Sequences, FiniteSets, TLC

(***************************************************************************)
(* Bounds of the model.                                                    *)
(***************************************************************************)
\* sessions the payment processor holds in one behaviour
MaxLive == 2
\* the same, in the behaviours of webhook ingestion alone
MaxLiveWebhook == 1
\* webhook deliveries started in one behaviour
MaxDeliveries == 2
\* sweep runs started in one behaviour
MaxSweeps == 2
\* on-demand order lookups started in one behaviour
MaxLookups == 1
\* clock advances in one behaviour
MaxTicks == 1
\* store or processor calls that fail in one behaviour
MaxFaults == 1
\* invocations (deliveries, sweep runs, lookups) started in one behaviour of
\* the whole pipeline
MaxOps == 2
\* requests and invocations started in one behaviour of the quote and checkout
\* pipeline
MaxQuoteOps == 3
\* entries of the carts whose normalizations are compared
MaxItems == 2
\* lifetime of a quote in minutes (the deployment's QUOTE_TTL setting)
MaxIdLen == 9
QuoteTtlMinutes == 1

(***************************************************************************)
(* Program constants.                                                      *)
(***************************************************************************)
MAX_PROCESSING_TIME_SECONDS == 25
DEFAULT_LOOKBACK_HOURS == 25
DEFAULT_MAX_SESSIONS == 500
UserIdMaxLen == 256
OrderSuffixLen == 8
SecondsPerHour == 3600
SecondsPerMinute == 60

\* The clock's first value: every timestamp of a behaviour has six digits, so
\* the byte order of the sort keys "ORDER#<timestamp>#<id>" is the numeric
\* order of the timestamps.
T0 == 200000

(***************************************************************************)
(* Characters and strings.                                                 *)
(***************************************************************************)
LowerLetters == <<"a","b","c","d","e","f","g","h","i","j","k","l","m",
                  "n","o","p","q","r","s","t","u","v","w","x","y","z">>
UpperLetters == <<"A","B","C","D","E","F","G","H","I","J","K","L","M",
                  "N","O","P","Q","R","S","T","U","V","W","X","Y","Z">>
DigitChars == <<"0","1","2","3","4","5","6","7","8","9">>

Range(f) == {f[i] : i \in DOMAIN f}

IsUpper(c) == c \in Range(UpperLetters)
IsLower(c) == c \in Range(LowerLetters)
IsDigit(c) == c \in Range(DigitChars)

\* str.upper() on one character
UpperChar(c) ==
    IF IsLower(c)
    THEN UpperLetters[CHOOSE i \in DOMAIN LowerLetters : LowerLetters[i] = c]
    ELSE c

UpperSeq(s) == [i \in DOMAIN s |-> UpperChar(s[i])]

\* s[-n:]
LastN(s, n) == IF Len(s) <= n THEN s ELSE SubSeq(s, Len(s) - n + 1, Len(s))
\* s[:n]
FirstN(s, n) == IF Len(s) <= n THEN s ELSE SubSeq(s, 1, n)

\* byte rank of the characters that occur in identifiers and in the JSON text
\* of a cart (ASCII order)
CharOrder == <<" ", "\"", "#", "+", ",", "-", ".">> \o DigitChars \o <<":", "@">>
             \o UpperLetters \o <<"[", "]", "_">> \o LowerLetters
             \o <<"{", "|", "}">>
CharRank(c) == CHOOSE i \in DOMAIN CharOrder : CharOrder[i] = c

RECURSIVE StrLess(_, _)
StrLess(a, b) ==
    IF b = <<>> THEN FALSE
    ELSE IF a = <<>> THEN TRUE
    ELSE IF Head(a) = Head(b) THEN StrLess(Tail(a), Tail(b))
    ELSE CharRank(Head(a)) < CharRank(Head(b))

\* decimal digits of a natural number, str(int)
RECURSIVE IntToStr(_)
IntToStr(n) ==
    IF n < 10 THEN <<DigitChars[n + 1]>>
    ELSE IntToStr(n \div 10) \o <<DigitChars[(n % 10) + 1]>>

(***************************************************************************)
(* Cart items and their normalization (shared_commerce/signing.py).  A     *)
(* cart item is a JSON object: here the sequence of its <<key, value>>     *)
(* pairs in the order the request carries them, keys being distinct.  A    *)
(* value is a string, a number or JSON null.                               *)
(***************************************************************************)
Str(chars) == <<"str", chars>>
Num(n) == <<"num", n>>
Null == <<"null", <<>>>>

KeySku == <<"s","k","u">>
KeyStripePriceId == <<"s","t","r","i","p","e","P","r","i","c","e","I","d">>
KeyUnitAmount == <<"u","n","i","t","A","m","o","u","n","t">>
KeyNote == <<"n","o","t","e">>

\* a catalogue item sold by a processor price reference
ItemPriced == << <<KeySku, Str(<<"a">>)>>, <<KeyStripePriceId, Str(<<"p","1">>)>> >>
\* the same object with its fields in another order
ItemPricedRev == << <<KeyStripePriceId, Str(<<"p","1">>)>>, <<KeySku, Str(<<"a">>)>> >>
\* the same object with one more field whose value is null
ItemPricedNull == << <<KeyNote, Null>>, <<KeySku, Str(<<"a">>)>>,
                     <<KeyStripePriceId, Str(<<"p","1">>)>> >>
\* an item priced ad hoc by its unit amount
ItemAdHoc == << <<KeyUnitAmount, Num(20)>>, <<KeySku, Str(<<"b">>)>> >>
\* an item with no price reference and no amount
ItemPlain == << <<KeySku, Str(<<"c">>)>> >>
\* an item whose price reference is null
ItemNullPrice == << <<KeySku, Str(<<"c">>)>>, <<KeyStripePriceId, Null>> >>
AllItems == {ItemPriced, ItemPricedRev, ItemPricedNull, ItemAdHoc, ItemPlain,
             ItemNullPrice}

\* dict.get(key): the value, JSON null when the key is absent
ItemGet(item, key) ==
    IF \E i \in DOMAIN item : item[i][1] = key
    THEN item[CHOOSE i \in DOMAIN item : item[i][1] = key][2]
    ELSE Null

\* signing.py line 16: {key: item[key] for key in sorted(item.keys())
\*                      if item[key] is not None}
RECURSIVE InsertPair(_, _)
InsertPair(sorted, pair) ==
    IF sorted = <<>> THEN <<pair>>
    ELSE IF StrLess(pair[1], Head(sorted)[1]) THEN <<pair>> \o sorted
    ELSE <<Head(sorted)>> \o InsertPair(Tail(sorted), pair)

RECURSIVE SortedPairs(_)
SortedPairs(item) ==
    IF item = <<>> THEN <<>>
    ELSE InsertPair(SortedPairs(SubSeq(item, 1, Len(item) - 1)), item[Len(item)])

NormalizedItem(item) == SortedPairs(SelectSeq(item, LAMBDA pair : pair[2] # Null))

\* json.dumps of a value
DumpValue(v) ==
    IF v[1] = "num" THEN IntToStr(v[2])
    ELSE IF v[1] = "null" THEN <<"n","u","l","l">>
    ELSE <<"\"">> \o v[2] \o <<"\"">>

\* json.dumps(entry, sort_keys=True) of one object, with the separators given
RECURSIVE DumpPairs(_, _, _)
DumpPairs(pairs, itemSep, keySep) ==
    IF pairs = <<>> THEN <<>>
    ELSE <<"\"">> \o Head(pairs)[1] \o <<"\"">> \o keySep \o DumpValue(Head(pairs)[2])
         \o (IF Len(pairs) > 1 THEN itemSep ELSE <<>>)
         \o DumpPairs(Tail(pairs), itemSep, keySep)

DumpItem(item, itemSep, keySep) ==
    <<"{">> \o DumpPairs(SortedPairs(item), itemSep, keySep) \o <<"}">>

\* the sort key of signing.py line 18 (json.dumps's default separators)
SortKey(entry) == DumpItem(entry, <<",", " ">>, <<":", " ">>)

\* list.sort(key=...): stable, ascending
RECURSIVE InsertEntry(_, _)
InsertEntry(sorted, entry) ==
    IF sorted = <<>> THEN <<entry>>
    ELSE IF StrLess(SortKey(entry), SortKey(Head(sorted))) THEN <<entry>> \o sorted
    ELSE <<Head(sorted)>> \o InsertEntry(Tail(sorted), entry)

RECURSIVE SortedEntries(_)
SortedEntries(entries) ==
    IF entries = <<>> THEN <<>>
    ELSE InsertEntry(SortedEntries(SubSeq(entries, 1, Len(entries) - 1)),
                     entries[Len(entries)])

\* json.dumps(cleaned, separators=(",", ":"), sort_keys=True)
RECURSIVE DumpList(_)
DumpList(entries) ==
    IF entries = <<>> THEN <<>>
    ELSE DumpItem(Head(entries), <<",">>, <<":">>)
         \o (IF Len(entries) > 1 THEN <<",">> ELSE <<>>)
         \o DumpList(Tail(entries))

\* fault variant of NormalizeItems: the cleaned entries are not sorted
NormalizeItemsUnsorted(items) ==
    <<"[">> \o DumpList([i \in DOMAIN items |-> NormalizedItem(items[i])]) \o <<"]">>

\* normalize_items, signing.py lines 10-19
NormalizeItems(items) ==
    <<"[">>
    \o DumpList(SortedEntries([i \in DOMAIN items |-> NormalizedItem(items[i])]))
    \o <<"]">>

\* hashlib.sha256(...).hexdigest(): a digest stands for the text it was
\* computed from, two texts having the same digest only if they are equal
Sha256(text) == <<"#">> \o text

\* hash_normalized_cart, signing.py lines 28-30
HashNormalizedCart(normalizedCart) == Sha256(normalizedCart)

\* the secret of the deployment (QUOTE_SIGNATURE_SECRET)
QuoteSecret == <<"k">>

\* compute_signature, signing.py lines 22-25; the timestamp is the clock's
\* value in decimal
ComputeSignature(normalizedCart, secret, timestamp) ==
    Sha256(normalizedCart \o <<"|">> \o IntToStr(timestamp) \o <<"|">> \o secret)

(***************************************************************************)
(* The payment processor's checkout sessions.  A behaviour draws up to     *)
(* MaxLive of them in Init; their attributes are the session object that   *)
(* Stripe returns from Session.list / Session.retrieve and embeds in the   *)
(* data.object of every event about the session.                           *)
(***************************************************************************)
SidA == <<"c","s","_","a","1">>
SidB == <<"c","s","_","b","2">>
SidC == <<"c","s","_","c","3">>
SidD == <<"c","s","_","d","4">>
AllSessionIds == {SidA, SidB, SidC, SidD}

\* the signature of a quote made before the behaviour starts
SigQ1 == <<"q","1">>

UserU1 == <<"u","1">>
EmailAX == <<"a","@","x">>
EmailPlus == <<"a","+","b","@","x">>

\* created: the session's creation time (Stripe's `created`);
\* userId: metadata.userId; email: customer_details.email;
\* quoteSig: metadata.quoteSignature; amount: amount_total.
\* SidA and SidB have the same owner; SidB was created more than an hour before
\* the clock starts; SidC has only an e-mail address, with a character the
\* webhook's sanitizer removes; SidD has no owner at all.
CatalogueData(sid) ==
    CASE sid = SidA -> [created |-> T0, userId |-> UserU1, email |-> EmailAX,
                        quoteSig |-> SigQ1, amount |-> 20]
      [] sid = SidB -> [created |-> T0 - SecondsPerHour - 1, userId |-> UserU1,
                        email |-> EmailAX, quoteSig |-> <<>>, amount |-> 35]
      [] sid = SidC -> [created |-> T0, userId |-> <<>>, email |-> EmailPlus,
                        quoteSig |-> SigQ1, amount |-> 20]
      [] sid = SidD -> [created |-> T0, userId |-> <<>>, email |-> <<>>,
                        quoteSig |-> <<>>, amount |-> 20]

\* the identities an authenticated dashboard caller can have
CallerIds == {UserU1, EmailPlus}

COMPLETION_EVENTS == {"checkout.session.completed",
                      "checkout.session.async_payment_succeeded"}

\* event types the processor delivers about a checkout session; the last one
\* stands for every type the handler's status_map does not list
EventTypes == COMPLETION_EVENTS \cup
              {"checkout.session.expired",
               "checkout.session.async_payment_failed",
               "checkout.session.async_payment_pending",
               "checkout.session.canceled",
               "checkout.session.other"}

\* One event per session and type; the pair is the processor-assigned event id.
Events == [sid : AllSessionIds, type : EventTypes]

\* status_map.get(event_type, "received")
DerivedStatus(type) ==
    CASE type = "checkout.session.completed" -> "completed"
      [] type = "checkout.session.expired" -> "expired"
      [] type = "checkout.session.async_payment_failed" -> "failed"
      [] type = "checkout.session.async_payment_succeeded" -> "completed"
      [] type = "checkout.session.async_payment_pending" -> "pending"
      [] type = "checkout.session.canceled" -> "canceled"
      [] OTHER -> "received"

(***************************************************************************)
(* Pure helpers of the order materializers.                                *)
(***************************************************************************)
OrderPrefix == <<"B","C","-">>

\* re.sub(r"[^A-Z0-9]", "", s)
StripNonAlnumUpper(s) == SelectSeq(s, LAMBDA c : IsUpper(c) \/ IsDigit(c))

\* babes-website-stripe-webhook: _generate_order_number (t is time.time())
GenerateOrderNumberWebhook(sid, t) ==
    IF sid = <<>> THEN OrderPrefix \o IntToStr(t)
    ELSE LET suffix == StripNonAlnumUpper(UpperSeq(LastN(sid, OrderSuffixLen)))
         IN  IF suffix = <<>>
             THEN OrderPrefix \o LastN(IntToStr(t), OrderSuffixLen)
             ELSE OrderPrefix \o suffix

\* babes-website-stripe-nightly-sync: _generate_order_number
GenerateOrderNumberSync(sid, t) ==
    IF sid = <<>> THEN OrderPrefix \o IntToStr(t)
    ELSE OrderPrefix \o StripNonAlnumUpper(UpperSeq(LastN(sid, OrderSuffixLen)))

\* re.sub(r"[^a-zA-Z0-9@.\-_]", "", str(user_id))[:256]
SanitizeUserId(uid) ==
    FirstN(SelectSeq(uid, LAMBDA c : IsLower(c) \/ IsUpper(c) \/ IsDigit(c)
                                      \/ c \in {"@", ".", "-", "_"}),
           UserIdMaxLen)

\* metadata.get("userId") or customer email; <<>> when neither is present
RawOwner(sd) == IF sd.userId # <<>> THEN sd.userId ELSE sd.email

\* the owner the webhook files an order under (<<>>: no order is written)
WebhookOwner(sd) == SanitizeUserId(RawOwner(sd))

\* the owner the sweep files an order under (<<>>: the session is skipped)
SyncOwner(sd) == RawOwner(sd)

(***************************************************************************)
(* The DynamoDB table, one variable per record type.                       *)
(*   orders:       PK = USER#<pk>, SK = ORDER#<skTs>#<orderId>             *)
(*   eventRecs:    PK = EVENT#<ev>, SK = METADATA                          *)
(*   sessionItems: PK = QUOTE#<sig>, SK = SESSION#<sid>                    *)
(*   pointerItems: PK = SESSION#<sid>, SK = METADATA                       *)
(*   syncState:    PK = SYSTEM, SK = STRIPE_ORDER_SYNC                     *)
(***************************************************************************)
SameOrderKey(a, b) == a.pk = b.pk /\ a.skTs = b.skTs /\ a.orderId = b.orderId

\* table.put_item: the item replaces any item with the same primary key
PutOrder(tbl, item) == {o \in tbl : ~SameOrderKey(o, item)} \cup {item}

\* byte order of the sort keys ORDER#<skTs>#<orderId>
OrderKeyLess(a, b) ==
    \/ a.skTs < b.skTs
    \/ a.skTs = b.skTs /\ StrLess(a.orderId, b.orderId)

\* Query(PK = USER#<pk>, SK begins_with ORDER#, FilterExpression, Limit=1):
\* DynamoDB reads at most Limit items of the partition in sort-key order and
\* applies the filter to what it read, so only the owner's first order is
\* ever compared; the callers do not follow LastEvaluatedKey.
\* QueryFirstOrder is what DynamoDB read; the caller's filter selects from it.
QueryFirstOrder(tbl, pk) ==
    LET part == {o \in tbl : o.pk = pk}
    IN  {o \in part : \A p \in part : p = o \/ OrderKeyLess(o, p)}

OrdersForSession(tbl, sid) == {o \in tbl : o.stripeSessionId = sid}

(***************************************************************************)
(* State.                                                                  *)
(***************************************************************************)
VARIABLES
    stripe,        \* processor: session id -> "open" | "complete"
    now,           \* time.time()
    ticks,         \* clock advances so far
    faults,        \* failed store/processor calls so far
    deliveries,    \* webhook deliveries started so far
    sweeps,        \* sweep runs started so far
    lookups,       \* order lookups started so far
    orders,        \* Order Snapshot items
    eventRecs,     \* Event Record items
    sessionItems,  \* quote-to-session items
    pointerItems,  \* session-to-quote pointer items
    syncState,     \* the Sync State item
    wh,            \* webhook workers: position and locals of lambda_handler
    sw,            \* sweep instances: position and locals of _run_sync
    go             \* the order-lookup handler: position and locals

VARIABLES
    quotes,        \* quote items (PK CART#<hash>)
    quotePointers, \* signature-to-hash pointer items (PK QUOTE#<signature>)
    opened,        \* processor sessions opened by checkout-session creation
    cq,            \* the last response of cart-quote
    co,            \* the last response of checkout-create-session
    quoteOps,      \* quote and checkout requests so far
    norm           \* the inputs and the results of the pure functions: two
                   \* carts and their normalizations, or a session id and
                   \* its order numbers

store == <<orders, eventRecs, sessionItems, pointerItems, syncState>>
counters == <<ticks, faults, deliveries, sweeps, lookups>>
quoteVars == <<quotes, quotePointers, opened, cq, co, quoteOps, norm>>
vars == <<stripe, now, ticks, faults, deliveries, sweeps, lookups,
          orders, eventRecs, sessionItems, pointerItems, syncState, wh, sw, go,
          quoteVars>>

\* the session object of sid: one of the sessions above, or a session that
\* checkout-create-session opened (the arguments of Session.create, the time
\* of the call and the total the processor computed from the line items)
SessionData(sid) ==
    IF sid \in AllSessionIds THEN CatalogueData(sid)
    ELSE LET rec == CHOOSE r \in opened : r.sid = sid
         IN  [created |-> rec.created, userId |-> rec.userId, email |-> rec.email,
              quoteSig |-> rec.quoteSignature, amount |-> rec.amount]

WorkerOrder == <<"w1", "w2">>
SweeperOrder == <<"s1", "s2">>
Workers == Range(WorkerOrder)
Sweepers == Range(SweeperOrder)

\* a new invocation takes the first free instance
FirstFree(p, procs, order) ==
    /\ procs[p].pc = "idle"
    /\ \A i, j \in DOMAIN order :
           (order[j] = p /\ i < j) => procs[order[i]].pc # "idle"

NoEvent == [sid |-> <<>>, type |-> ""]
NoResponse == [code |-> 0, status |-> "", orderNumber |-> <<>>]

IdleWorker == [pc |-> "idle", kind |-> "", ev |-> NoEvent, start |-> 0,
               processedAt |-> 0, qsig |-> <<>>, dedup |-> "", snap |-> <<>>,
               resp |-> NoResponse]

(***************************************************************************)
(* babes-website-stripe-webhook: lambda_handler.                           *)
(***************************************************************************)
\* What a request can look like to the verification steps.
RequestKinds == {"ok", "nosig", "badsig", "stale", "badjson", "noid", "notype"}

\* lines 506-542: the status code of the rejection, 0 when the request passes
\*   nosig   no Stripe-Signature header
\*   badsig  construct_event raises SignatureVerificationError (mismatch)
\*   stale   construct_event raises SignatureVerificationError (timestamp
\*           outside the tolerance)
\*   badjson construct_event raises ValueError (payload does not parse)
\*   noid / notype  the verified event carries no id / no type
\* fault variant of VerifyRequest: construct_event called without a
\* timestamp tolerance, so a stale signature passes
VerifyRequestNoTolerance(kind) == IF kind \in {"ok", "stale"} THEN 0 ELSE 400

\* lines 506-542 as written
VerifyRequest(kind) == IF kind = "ok" THEN 0 ELSE 400

EventRecordOf(recs, e) == {r \in recs : r.eventId = e}

\* fault variant of WebhookEntry: the handler without its early return on an
\* existing Event Record
WebhookEntryNoDedup(kind, e, readOk, recs, t) ==
    IF VerifyRequest(kind) # 0
    THEN [IdleWorker EXCEPT !.pc = "done", !.kind = kind,
                            !.resp = [NoResponse EXCEPT !.code = VerifyRequest(kind)]]
    ELSE [IdleWorker EXCEPT !.pc = "session", !.kind = kind, !.ev = e, !.start = t,
                            !.dedup = IF readOk THEN "absent" ELSE "error"]

\* lines 485-554: verification and the idempotency read.  readOk is FALSE when
\* table.get_item raises; the handler then logs and carries on.
WebhookEntry(kind, e, readOk, recs, t) ==
    IF VerifyRequest(kind) # 0
    THEN [IdleWorker EXCEPT !.pc = "done", !.kind = kind,
                            !.resp = [NoResponse EXCEPT !.code = VerifyRequest(kind)]]
    ELSE IF readOk /\ EventRecordOf(recs, e) # {}
    THEN [IdleWorker EXCEPT !.pc = "done", !.kind = kind, !.ev = e,
                            !.dedup = "present",
                            !.resp = [NoResponse EXCEPT
                                !.code = 200,
                                !.status = (CHOOSE r \in EventRecordOf(recs, e) : TRUE).status]]
    ELSE [IdleWorker EXCEPT !.pc = "session", !.kind = kind, !.ev = e, !.start = t,
                            !.dedup = IF readOk THEN "absent" ELSE "error"]

WhReceive(w, kind, e, readOk) ==
    /\ FirstFree(w, wh, WorkerOrder)
    /\ deliveries < MaxDeliveries
    \* the processor sends events about its own sessions, and a completion
    \* event only once the session is complete
    /\ e.sid \in DOMAIN stripe
    /\ e.type \in COMPLETION_EVENTS => stripe[e.sid] = "complete"
    /\ readOk \/ (kind = "ok" /\ faults < MaxFaults)
    /\ deliveries' = deliveries + 1
    /\ faults' = IF readOk THEN faults ELSE faults + 1
    /\ wh' = [wh EXCEPT ![w] = WebhookEntry(kind, e, readOk, eventRecs, now)]
    /\ UNCHANGED <<stripe, now, ticks, sweeps, lookups, store, sw, go, quoteVars>>

\* lines 576-616: the quote signature from the session pointer, else from the
\* event's metadata, else from the session retrieved from the processor (the
\* same metadata).  ptrOk is FALSE when get_session_pointer raises.
ResolveQuoteSignature(ptrs, sid, ptrOk) ==
    LET found == {p \in ptrs : p.sid = sid}
        fromPointer == IF ptrOk /\ found # {}
                       THEN (CHOOSE p \in found : TRUE).quoteSignature ELSE <<>>
    IN  IF fromPointer # <<>> THEN fromPointer ELSE SessionData(sid).quoteSig

\* fault variant of UpdateSessionItem: a session whose status is "completed"
\* keeps it
UpdateSessionItemKeepCompleted(items, sig, sid, status) ==
    IF \E i \in items : i.sig = sig /\ i.sid = sid /\ i.status = "completed"
    THEN items
    ELSE {i \in items : ~(i.sig = sig /\ i.sid = sid)}
             \cup {[sig |-> sig, sid |-> sid, status |-> status]}

\* table.update_item on PK=QUOTE#<sig>, SK=SESSION#<sid>: SET #status
\* (update_item creates the item when the key is absent)
UpdateSessionItem(items, sig, sid, status) ==
    {i \in items : ~(i.sig = sig /\ i.sid = sid)}
        \cup {[sig |-> sig, sid |-> sid, status |-> status]}

\* table.update_item on PK=SESSION#<sid>, SK=METADATA: SET #status
UpdatePointerItem(ptrs, sid, status) ==
    LET found == {p \in ptrs : p.sid = sid}
    IN  {p \in ptrs : p.sid # sid}
            \cup {[sid |-> sid, status |-> status,
                   quoteSignature |-> IF found = {} THEN <<>>
                                      ELSE (CHOOSE p \in found : TRUE).quoteSignature]}

\* lines 556-664 up to the first update_item of update_session_status
WhUpdateSession(w, ptrOk, updOk) ==
    /\ wh[w].pc = "session"
    /\ LET nFail == (IF ptrOk THEN 0 ELSE 1) + (IF updOk THEN 0 ELSE 1)
           sid == wh[w].ev.sid
           qsig == ResolveQuoteSignature(pointerItems, sid, ptrOk)
       IN  /\ faults + nFail <= MaxFaults
           /\ qsig = <<>> => updOk
           /\ faults' = faults + nFail
           /\ sessionItems' = IF qsig # <<>> /\ updOk
                              THEN UpdateSessionItem(sessionItems, qsig, sid,
                                                     DerivedStatus(wh[w].ev.type))
                              ELSE sessionItems
           /\ wh' = [wh EXCEPT ![w].qsig = qsig, ![w].processedAt = now,
                               ![w].pc = IF qsig # <<>> /\ updOk THEN "pointer" ELSE "order"]
    /\ UNCHANGED <<stripe, now, ticks, deliveries, sweeps, lookups,
                   orders, eventRecs, pointerItems, syncState, sw, go, quoteVars>>

\* the second update_item of update_session_status
WhUpdatePointer(w, updOk) ==
    /\ wh[w].pc = "pointer"
    /\ updOk \/ faults < MaxFaults
    /\ faults' = IF updOk THEN faults ELSE faults + 1
    /\ pointerItems' = IF updOk
                       THEN UpdatePointerItem(pointerItems, wh[w].ev.sid,
                                              DerivedStatus(wh[w].ev.type))
                       ELSE pointerItems
    /\ wh' = [wh EXCEPT ![w].pc = "order"]
    /\ UNCHANGED <<stripe, now, ticks, deliveries, sweeps, lookups,
                   orders, eventRecs, sessionItems, syncState, sw, go, quoteVars>>

\* the pricingSummary cart-quote stores in a quote item (lines 274-297)
PricingSummary(q) == [items |-> q.itemCount]

\* _get_quote_data, lines 301-317: get_item of PK QUOTE#<sig>, SK CACHE, and
\* the pricingSummary of the item found (<<>> when no item is found, when the
\* item has none, and when get_item raises).  The items the handlers write
\* under PK QUOTE#<sig> are the signature pointer (SK METADATA, cart-quote
\* line 304), which has no pricingSummary, and the quote-to-session items (SK
\* SESSION#<id>, checkout-create-session line 440), which copy the quote's;
\* the quote items themselves are under PK CART#<hash>.
GetQuoteData(sig) ==
    LET underSig ==
            {[sk |-> "METADATA", pricingSummary |-> <<>>] :
                 p \in {x \in quotePointers : x.sig = sig}}
            \cup {[sk |-> "SESSION#", pricingSummary |-> <<"copy">>] :
                      i \in {x \in sessionItems : x.sig = sig}}
        found == {x \in underSig : x.sk = "CACHE"}
    IN  IF found = {} THEN <<>> ELSE (CHOOSE x \in found : TRUE).pricingSummary

\* _create_order_snapshot, lines 377-405: the item written for session sid
\* at time t (time.time()) by a delivery whose processed_at is pAt
WebhookOrderItem(sid, qsig, pAt, t) ==
    LET sd == SessionData(sid)
    IN  [pk |-> WebhookOwner(sd), skTs |-> t, orderId |-> sid,
         orderNumber |-> GenerateOrderNumberWebhook(sid, t),
         userId |-> WebhookOwner(sd), status |-> "completed",
         amount |-> sd.amount, createdAt |-> pAt, completedAt |-> pAt,
         stripeSessionId |-> sid, quoteSignature |-> qsig, source |-> "",
         pricingSummary |-> IF qsig # <<>> THEN GetQuoteData(qsig) ELSE <<>>]

\* _create_order_snapshot: the table after the call and the returned order
\* number (<<>> for None).  putOk is FALSE when table.put_item raises.
CreateOrderSnapshot(tbl, sid, qsig, pAt, t, putOk) ==
    IF WebhookOwner(SessionData(sid)) = <<>> \/ ~putOk
    THEN [tbl |-> tbl, number |-> <<>>]
    ELSE [tbl |-> PutOrder(tbl, WebhookOrderItem(sid, qsig, pAt, t)),
          number |-> GenerateOrderNumberWebhook(sid, t)]

\* fault variant of ShouldMaterialize: only the asynchronous completion event
\* counts as a completion
ShouldMaterializeAsyncOnly(type, elapsed) ==
    type = "checkout.session.async_payment_succeeded"
        /\ elapsed < MAX_PROCESSING_TIME_SECONDS

\* lines 669-695: is the materializer called at all
ShouldMaterialize(type, elapsed) ==
    type \in COMPLETION_EVENTS /\ elapsed < MAX_PROCESSING_TIME_SECONDS

WhMaterialize(w, putOk) ==
    /\ wh[w].pc = "order"
    /\ LET call == ShouldMaterialize(wh[w].ev.type, now - wh[w].start)
           res == CreateOrderSnapshot(orders, wh[w].ev.sid, wh[w].qsig,
                                      wh[w].processedAt, now, putOk)
       IN  /\ putOk \/ (faults < MaxFaults /\ call
                        /\ WebhookOwner(SessionData(wh[w].ev.sid)) # <<>>)
           /\ faults' = IF putOk THEN faults ELSE faults + 1
           /\ orders' = IF call THEN res.tbl ELSE orders
           /\ wh' = [wh EXCEPT ![w].pc = "record", ![w].start = 0,
                               ![w].snap = IF call THEN res.number ELSE <<>>]
    /\ UNCHANGED <<stripe, now, ticks, deliveries, sweeps, lookups,
                   eventRecs, sessionItems, pointerItems, syncState, sw, go, quoteVars>>

\* fault variant of EventItem: the record reports an order for every
\* completion event
EventItemAlwaysCreated(e, qsig, pAt, snap) ==
    [eventId |-> e, eventType |-> e.type, processedAt |-> pAt, sessionId |-> e.sid,
     status |-> DerivedStatus(e.type), quoteSignature |-> qsig,
     orderCreated |-> (e.type \in COMPLETION_EVENTS), orderNumber |-> snap]

\* lines 698-714: the Event Record of a delivery
EventItem(e, qsig, pAt, snap) ==
    [eventId |-> e, eventType |-> e.type, processedAt |-> pAt, sessionId |-> e.sid,
     status |-> DerivedStatus(e.type), quoteSignature |-> qsig,
     orderCreated |-> (snap # <<>>), orderNumber |-> snap]

\* shared_commerce.record_event: table.put_item of the Event Record
RecordEvent(recs, item) == {r \in recs : r.eventId # item.eventId} \cup {item}

\* fault variant of WebhookResponse: the exception of record_event is not
\* caught and the invocation ends in a server error
WebhookResponseRaising(e, snap, recOk) ==
    [code |-> IF recOk THEN 200 ELSE 500, status |-> DerivedStatus(e.type),
     orderNumber |-> snap]

\* lines 716-745: the response after record_event returned (recOk) or raised
WebhookResponse(e, snap, recOk) ==
    [code |-> 200, status |-> DerivedStatus(e.type), orderNumber |-> snap]

WhRecord(w, recOk) ==
    /\ wh[w].pc = "record"
    /\ recOk \/ faults < MaxFaults
    /\ faults' = IF recOk THEN faults ELSE faults + 1
    /\ eventRecs' = IF recOk
                    THEN RecordEvent(eventRecs, EventItem(wh[w].ev, wh[w].qsig,
                                                          wh[w].processedAt, wh[w].snap))
                    ELSE eventRecs
    /\ wh' = [wh EXCEPT ![w].pc = "done", ![w].processedAt = 0, ![w].qsig = <<>>,
                        ![w].resp = WebhookResponse(wh[w].ev, wh[w].snap, recOk)]
    /\ UNCHANGED <<stripe, now, ticks, deliveries, sweeps, lookups,
                   orders, sessionItems, pointerItems, syncState, sw, go, quoteVars>>

\* the response leaves the worker
WhReturn(w) ==
    /\ wh[w].pc = "done"
    /\ wh' = [wh EXCEPT ![w] = IdleWorker]
    /\ UNCHANGED <<stripe, now, counters, store, sw, go, quoteVars>>

(***************************************************************************)
(* babes-website-stripe-nightly-sync: _run_sync.                           *)
(***************************************************************************)
NoSync == [written |-> FALSE]
NoResult == [processed |-> 0, created |-> 0, skipped |-> 0, errors |-> 0,
             createdOrders |-> <<>>, dryRun |-> FALSE]

IdleSweeper == [pc |-> "idle", listing |-> <<>>, cur |-> <<>>, processed |-> 0,
                created |-> 0, skipped |-> 0, errors |-> 0, createdOrders |-> <<>>,
                dryRun |-> FALSE, maxSessions |-> 0, sinceTs |-> 0, nowTs |-> 0,
                startedAt |-> 0, result |-> NoResult]

\* the overrides a run can be started with (event payload, else environment,
\* else the defaults)
LookbackChoices == {1, DEFAULT_LOOKBACK_HOURS}
MaxSessionsChoices == {1, DEFAULT_MAX_SESSIONS}

\* stripe.checkout.Session.list(created={gte, lte}, status="complete")
ListedSessions(proc, since, until) ==
    {s \in DOMAIN proc : /\ proc[s] = "complete"
                         /\ SessionData(s).created >= since
                         /\ SessionData(s).created <= until}

\* the orders in which the processor can return a set of sessions: most
\* recently created first
Listings(S) ==
    {q \in [1..Cardinality(S) -> S] :
        /\ \A i, j \in DOMAIN q : i # j => q[i] # q[j]
        /\ \A i, j \in DOMAIN q :
              i < j => SessionData(q[i]).created >= SessionData(q[j]).created}

\* fault variant of SweepStart: the window starts where the window recorded
\* in Sync State ended
SweepStartFromSyncState(k, hours, maxS, dry, listOk) ==
    /\ FirstFree(k, sw, SweeperOrder)
    /\ sweeps < MaxSweeps
    /\ listOk \/ faults < MaxFaults
    /\ sweeps' = sweeps + 1
    /\ faults' = IF listOk THEN faults ELSE faults + 1
    /\ LET since == IF syncState.written THEN syncState.lastLookbackEnd
                    ELSE now - hours * SecondsPerHour
           base == [IdleSweeper EXCEPT !.dryRun = dry, !.maxSessions = maxS,
                                       !.sinceTs = since, !.nowTs = now,
                                       !.startedAt = now]
       IN  IF listOk
           THEN \E q \in Listings(ListedSessions(stripe, since, now)) :
                    sw' = [sw EXCEPT ![k] = [base EXCEPT !.pc = "iter", !.listing = q]]
           ELSE sw' = [sw EXCEPT ![k] = [base EXCEPT !.pc = "finish", !.errors = 1]]
    /\ UNCHANGED <<stripe, now, ticks, deliveries, lookups, store, wh, go, quoteVars>>

\* lines 417-443
SweepStart(k, hours, maxS, dry, listOk) ==
    /\ FirstFree(k, sw, SweeperOrder)
    /\ sweeps < MaxSweeps
    /\ listOk \/ faults < MaxFaults
    /\ sweeps' = sweeps + 1
    /\ faults' = IF listOk THEN faults ELSE faults + 1
    /\ LET since == now - hours * SecondsPerHour
           base == [IdleSweeper EXCEPT !.dryRun = dry, !.maxSessions = maxS,
                                       !.sinceTs = since, !.nowTs = now,
                                       !.startedAt = now]
       IN  IF listOk
           THEN \E q \in Listings(ListedSessions(stripe, since, now)) :
                    sw' = [sw EXCEPT ![k] = [base EXCEPT !.pc = "iter", !.listing = q]]
           ELSE sw' = [sw EXCEPT ![k] = [base EXCEPT !.pc = "finish", !.errors = 1]]
    /\ UNCHANGED <<stripe, now, ticks, deliveries, lookups, store, wh, go, quoteVars>>

\* fault variant of OrderExistsForSession: a failed query reports that no
\* order exists
OrderExistsForSessionFailOpen(tbl, userId, sid, readOk) ==
    IF readOk
    THEN {o \in QueryFirstOrder(tbl, userId) : o.stripeSessionId = sid} # {}
    ELSE FALSE

\* _order_exists_for_session; readOk is FALSE when table.query raises
OrderExistsForSession(tbl, userId, sid, readOk) ==
    IF readOk
    THEN {o \in QueryFirstOrder(tbl, userId) : o.stripeSessionId = sid} # {}
    ELSE TRUE

\* fault variant of SyncDecision: a session without an owner is not skipped
SyncDecisionNoOwnerCheck(tbl, sid, readOk) ==
    IF OrderExistsForSession(tbl, SyncOwner(SessionData(sid)), sid, readOk)
    THEN "skip"
    ELSE "create"

\* _create_order_snapshot_from_session, lines 297-315: what the run does with
\* a session before any write: "skip" or "create"
SyncDecision(tbl, sid, readOk) ==
    IF SyncOwner(SessionData(sid)) = <<>> THEN "skip"
    ELSE IF OrderExistsForSession(tbl, SyncOwner(SessionData(sid)), sid, readOk)
    THEN "skip"
    ELSE "create"

\* fault variant of SyncOrderItem: the sort key carries the time of the run
\* instead of the session's creation time
SyncOrderItemNowKey(sid, startedAt) ==
    LET sd == SessionData(sid)
    IN  [pk |-> SyncOwner(sd), skTs |-> startedAt, orderId |-> sid,
         orderNumber |-> GenerateOrderNumberSync(sid, startedAt),
         userId |-> SyncOwner(sd), status |-> "completed",
         amount |-> sd.amount, createdAt |-> sd.created, completedAt |-> startedAt,
         stripeSessionId |-> sid, quoteSignature |-> sd.quoteSig,
         source |-> "nightly_sync", pricingSummary |-> <<>>]

\* _create_order_snapshot_from_session, lines 326-352: the item of a run that
\* started at time startedAt
SyncOrderItem(sid, startedAt) ==
    LET sd == SessionData(sid)
    IN  [pk |-> SyncOwner(sd), skTs |-> sd.created, orderId |-> sid,
         orderNumber |-> GenerateOrderNumberSync(sid, startedAt),
         userId |-> SyncOwner(sd), status |-> "completed",
         amount |-> sd.amount, createdAt |-> sd.created, completedAt |-> startedAt,
         stripeSessionId |-> sid, quoteSignature |-> sd.quoteSig,
         source |-> "nightly_sync", pricingSummary |-> <<>>]

\* counters after one session was tallied (lines 462-466)
Tally(s, success, number) ==
    IF success /\ number # <<>>
    THEN [s EXCEPT !.created = @ + 1, !.createdOrders = Append(@, number)]
    ELSE [s EXCEPT !.skipped = @ + 1]

\* fault variant of SweepIterate: the loop does not stop at max_sessions
SweepIterateNoCap(k, readOk, pageOk) ==
    /\ sw[k].pc = "iter"
    /\ LET s == sw[k]
           more == s.processed < Len(s.listing)
           sid == s.listing[s.processed + 1]
           queried == more /\ SyncOwner(SessionData(sid)) # <<>>
           taken == [s EXCEPT !.processed = @ + 1]
       IN  /\ pageOk \/ ( /\ readOk /\ faults < MaxFaults
                            /\ s.processed >= 1 /\ s.processed < Len(s.listing) )
           /\ readOk \/ (queried /\ faults < MaxFaults)
           /\ faults' = IF readOk /\ pageOk THEN faults ELSE faults + 1
           /\ sw' = [sw EXCEPT ![k] =
                  IF ~pageOk THEN [s EXCEPT !.pc = "finish", !.errors = @ + 1]
                  ELSE IF ~more THEN [s EXCEPT !.pc = "finish"]
                  ELSE IF SyncDecision(orders, sid, readOk) = "skip"
                  THEN Tally(taken, FALSE, <<>>)
                  ELSE IF s.dryRun
                  THEN Tally(taken, TRUE, GenerateOrderNumberSync(sid, now))
                  ELSE [taken EXCEPT !.pc = "write", !.cur = sid]]
    /\ UNCHANGED <<stripe, now, ticks, deliveries, sweeps, lookups, store, wh, go, quoteVars>>

\* lines 445-466 for one session, up to the existence check (and, in a dry
\* run, to the end of the iteration).  The iterator over the listing is the
\* listing and the number of sessions taken from it.  pageOk is FALSE when
\* auto_paging_iter raises a StripeError while fetching the sessions after
\* the first page (lines 472-474: counted as one error, the loop is left).
SweepIterate(k, readOk, pageOk) ==
    /\ sw[k].pc = "iter"
    /\ LET s == sw[k]
           more == s.processed < Len(s.listing) /\ s.processed < s.maxSessions
           sid == s.listing[s.processed + 1]
           queried == more /\ SyncOwner(SessionData(sid)) # <<>>
           taken == [s EXCEPT !.processed = @ + 1]
       IN  /\ pageOk \/ ( /\ readOk /\ faults < MaxFaults
                            /\ s.processed >= 1 /\ s.processed < Len(s.listing) )
           /\ readOk \/ (queried /\ faults < MaxFaults)
           /\ faults' = IF readOk /\ pageOk THEN faults ELSE faults + 1
           /\ sw' = [sw EXCEPT ![k] =
                  IF ~pageOk THEN [s EXCEPT !.pc = "finish", !.errors = @ + 1]
                  ELSE IF ~more THEN [s EXCEPT !.pc = "finish"]
                  ELSE IF SyncDecision(orders, sid, readOk) = "skip"
                  THEN Tally(taken, FALSE, <<>>)
                  ELSE IF s.dryRun
                  THEN Tally(taken, TRUE, GenerateOrderNumberSync(sid, now))
                  ELSE [taken EXCEPT !.pc = "write", !.cur = sid]]
    /\ UNCHANGED <<stripe, now, ticks, deliveries, sweeps, lookups, store, wh, go, quoteVars>>

\* lines 388-400: table.put_item of the order; putOk is FALSE when it raises
SweepWrite(k, putOk) ==
    /\ sw[k].pc = "write"
    /\ putOk \/ faults < MaxFaults
    /\ faults' = IF putOk THEN faults ELSE faults + 1
    /\ orders' = IF putOk
                 THEN PutOrder(orders, SyncOrderItem(sw[k].cur, sw[k].startedAt))
                 ELSE orders
    /\ sw' = [sw EXCEPT ![k] =
                 [Tally(sw[k], putOk, GenerateOrderNumberSync(sw[k].cur, now))
                     EXCEPT !.pc = "iter", !.cur = <<>>]]
    /\ UNCHANGED <<stripe, now, ticks, deliveries, sweeps, lookups,
                   eventRecs, sessionItems, pointerItems, syncState, wh, go, quoteVars>>

\* _update_sync_state: the Sync State item after the run
SyncStateItem(s) ==
    [written |-> TRUE, lastSyncStartedAt |-> s.startedAt,
     lastSyncProcessed |-> s.processed, lastSyncCreated |-> s.created,
     lastSyncSkipped |-> s.skipped, lastSyncErrors |-> s.errors,
     lastLookbackStart |-> s.sinceTs, lastLookbackEnd |-> s.nowTs]

\* lines 492-506: the summary the run returns
SyncResult(s) ==
    [processed |-> s.processed, created |-> s.created, skipped |-> s.skipped,
     errors |-> s.errors, createdOrders |-> s.createdOrders, dryRun |-> s.dryRun]

\* fault variant of SweepFinish: Sync State is persisted only by a run that
\* met no error
SweepFinishOnlyClean(k, putOk) ==
    /\ sw[k].pc = "finish"
    /\ putOk \/ (faults < MaxFaults /\ ~sw[k].dryRun)
    /\ faults' = IF putOk THEN faults ELSE faults + 1
    /\ syncState' = IF putOk /\ ~sw[k].dryRun /\ sw[k].errors = 0
                     THEN SyncStateItem(sw[k]) ELSE syncState
    /\ sw' = [sw EXCEPT ![k].pc = "done", ![k].result = SyncResult(sw[k])]
    /\ UNCHANGED <<stripe, now, ticks, deliveries, sweeps, lookups,
                   orders, eventRecs, sessionItems, pointerItems, wh, go, quoteVars>>

\* lines 476-506; putOk is FALSE when the put_item of _update_sync_state
\* raises (logged, not raised)
SweepFinish(k, putOk) ==
    /\ sw[k].pc = "finish"
    /\ putOk \/ (faults < MaxFaults /\ ~sw[k].dryRun)
    /\ faults' = IF putOk THEN faults ELSE faults + 1
    /\ syncState' = IF putOk /\ ~sw[k].dryRun THEN SyncStateItem(sw[k]) ELSE syncState
    /\ sw' = [sw EXCEPT ![k].pc = "done", ![k].result = SyncResult(sw[k])]
    /\ UNCHANGED <<stripe, now, ticks, deliveries, sweeps, lookups,
                   orders, eventRecs, sessionItems, pointerItems, wh, go, quoteVars>>

\* the sessions a run has taken from its listing so far
ProcessedBy(s) == {s.listing[i] : i \in 1..s.processed}

\* _run_sync lines 445-466 as a function: the order numbers a run that is not
\* a dry run, started at startedAt and meeting no failure, appends to
\* created_orders when it takes the sessions listing[i..n] from a store whose
\* orders are tbl
RECURSIVE RunCreates(_, _, _, _, _)
RunCreates(tbl, listing, i, n, startedAt) ==
    IF i > n THEN <<>>
    ELSE IF SyncDecision(tbl, listing[i], TRUE) = "skip"
    THEN RunCreates(tbl, listing, i + 1, n, startedAt)
    ELSE <<SyncOrderItem(listing[i], startedAt).orderNumber>>
             \o RunCreates(PutOrder(tbl, SyncOrderItem(listing[i], startedAt)),
                           listing, i + 1, n, startedAt)

\* the summary leaves the instance
SweepReturn(k) ==
    /\ sw[k].pc = "done"
    /\ sw' = [sw EXCEPT ![k] = IdleSweeper]
    /\ UNCHANGED <<stripe, now, counters, store, wh, go, quoteVars>>

(***************************************************************************)
(* babes-website-dashboard-get-order: lambda_handler.                      *)
(***************************************************************************)
NoItem == [pk |-> <<>>]
NoLookupResponse == [code |-> 0, orderId |-> <<>>, userId |-> <<>>]
IdleLookup == [pc |-> "idle", user |-> <<>>, orderId |-> <<>>, item |-> NoItem,
               resp |-> NoLookupResponse]

\* _fetch_order_from_dynamodb; readOk is FALSE when table.query raises
FetchOrderFromDynamodb(tbl, user, oid, readOk) ==
    IF readOk THEN {o \in QueryFirstOrder(tbl, user) : o.orderId = oid} ELSE {}

\* fault variant of OwnershipVerified: a session without a metadata user
\* identifier is not compared with the caller by its customer email
OwnershipVerifiedNoEmailCheck(sd, user) ==
    /\ sd.userId # <<>> => sd.userId = user
    /\ ~(sd.userId = <<>> /\ sd.email = <<>>)

\* _fetch_order_from_stripe, lines 226-257: may `user` see the session
OwnershipVerified(sd, user) ==
    /\ sd.userId # <<>> => sd.userId = user
    /\ (sd.userId = <<>> /\ sd.email # <<>>) => sd.email = user
    /\ ~(sd.userId = <<>> /\ sd.email = <<>>)

\* _fetch_order_from_stripe lines 305-325 with the key _cache_order_to_dynamodb
\* adds (the SK timestamp is createdAt parsed back: the session's `created`)
LookupOrderItem(sid, user, procStatus) ==
    LET sd == SessionData(sid)
    IN  [pk |-> user, skTs |-> sd.created, orderId |-> sid,
         orderNumber |-> GenerateOrderNumberWebhook(sid, sd.created),
         userId |-> user,
         status |-> IF procStatus = "complete" THEN "completed" ELSE procStatus,
         amount |-> sd.amount, createdAt |-> sd.created, completedAt |-> sd.created,
         stripeSessionId |-> sid, quoteSignature |-> <<>>, source |-> "stripe_fallback",
         pricingSummary |-> <<>>]

\* _fetch_order_from_stripe: {} for None; apiOk is FALSE when Session.retrieve
\* raises a StripeError
FetchOrderFromStripe(proc, sid, user, apiOk) ==
    IF apiOk /\ sid \in DOMAIN proc /\ OwnershipVerified(SessionData(sid), user)
    THEN {LookupOrderItem(sid, user, proc[sid])}
    ELSE {}

\* lines 413-428
GoRequest(user, oid, readOk, apiOk) ==
    /\ go.pc = "idle"
    /\ lookups < MaxLookups
    /\ LET nFail == (IF readOk THEN 0 ELSE 1) + (IF apiOk THEN 0 ELSE 1)
           cached == FetchOrderFromDynamodb(orders, user, oid, readOk)
           fetched == FetchOrderFromStripe(stripe, oid, user, apiOk)
       IN  /\ faults + nFail <= MaxFaults
           /\ cached # {} => apiOk
           /\ faults' = faults + nFail
           /\ go' = IF cached # {}
                    THEN [IdleLookup EXCEPT !.pc = "done", !.user = user, !.orderId = oid,
                            !.resp = [code |-> 200, orderId |-> oid,
                                      userId |-> (CHOOSE o \in cached : TRUE).userId]]
                    ELSE IF fetched = {}
                    THEN [IdleLookup EXCEPT !.pc = "done", !.user = user, !.orderId = oid,
                            !.resp = [NoLookupResponse EXCEPT !.code = 404]]
                    ELSE [IdleLookup EXCEPT !.pc = "cache", !.user = user, !.orderId = oid,
                            !.item = CHOOSE o \in fetched : TRUE]
    /\ lookups' = lookups + 1
    /\ UNCHANGED <<stripe, now, ticks, deliveries, sweeps, store, wh, sw, quoteVars>>

\* lines 430-433: _cache_order_to_dynamodb, then the response; putOk is FALSE
\* when table.put_item raises (logged, the order is still returned)
GoCache(putOk) ==
    /\ go.pc = "cache"
    /\ putOk \/ faults < MaxFaults
    /\ faults' = IF putOk THEN faults ELSE faults + 1
    /\ orders' = IF putOk THEN PutOrder(orders, go.item) ELSE orders
    /\ go' = [go EXCEPT !.pc = "done", !.item = NoItem,
                        !.resp = [code |-> 200, orderId |-> go.orderId,
                                  userId |-> go.item.userId]]
    /\ UNCHANGED <<stripe, now, ticks, deliveries, sweeps, lookups,
                   eventRecs, sessionItems, pointerItems, syncState, wh, sw, quoteVars>>

GoReturn ==
    /\ go.pc = "done"
    /\ go' = IdleLookup
    /\ UNCHANGED <<stripe, now, counters, store, wh, sw, quoteVars>>

(***************************************************************************)
(* babes-website-cart-quote and babes-website-checkout-create-session.     *)
(* Each handler is one step: the store calls of one request are its only   *)
(* effects, and a request that fails part-way is a step whose batch write  *)
(* reached only a part of its items.                                       *)
(***************************************************************************)
NoQuoteResponse ==
    [n |-> 0, code |-> 0, quoteSignature |-> <<>>, quoteCreatedAt |-> 0,
     normalizedHash |-> <<>>, expiresAt |-> 0]
NoCheckoutResponse ==
    [n |-> 0, sig |-> <<>>, code |-> 0, error |-> "", quote |-> <<>>,
     sessionId |-> <<>>, stripeSessionId |-> <<>>]
NoNorm == [pc |-> "idle", items |-> <<>>, other |-> <<>>,
           out |-> <<>>, outOther |-> <<>>, hash |-> <<>>, hashOther |-> <<>>]

\* uuid.uuid4().hex: two values a request may draw
UuidPool == {<<"3">>, <<"c">>}

\* the carts of the requests
CartA == <<ItemPriced, ItemAdHoc>>
CartARev == <<ItemAdHoc, ItemPricedNull>>
CartPlain == <<ItemPlain>>
CartChoices == {<<>>, CartA, CartARev, CartPlain}

\* cart-quote lines 261-298: the quote item of a request for items at time t
\* that drew uid; createdAt is the clock's value (six digits, so the byte
\* order of the sort keys "QUOTE#<createdAt>#<uuid>" is the numeric order)
QuoteItem(items, t, uid) ==
    LET normalized == NormalizeItems(items)
    IN  [hash |-> HashNormalizedCart(normalized), createdAt |-> t, uid |-> uid,
         quoteSignature |-> ComputeSignature(normalized, QuoteSecret, t),
         requestItems |-> items, itemCount |-> Len(items),
         expiresAt |-> t + QuoteTtlMinutes * SecondsPerMinute]

\* cart-quote lines 303-309
QuotePointerItem(q) ==
    [sig |-> q.quoteSignature, normalizedHash |-> q.hash,
     quoteCreatedAt |-> q.createdAt, expiresAt |-> q.expiresAt]

\* fault variant of PutQuote: the sort key carries no uuid
PutQuoteNoUuid(tbl, item) ==
    {q \in tbl : ~(q.hash = item.hash /\ q.createdAt = item.createdAt)} \cup {item}

\* put_item of a quote item: an item with the same PK and SK is replaced
PutQuote(tbl, item) ==
    {q \in tbl : ~( /\ q.hash = item.hash /\ q.createdAt = item.createdAt
                    /\ q.uid = item.uid )} \cup {item}

\* put_item of a pointer item (PK QUOTE#<signature>, SK METADATA)
PutQuotePointer(tbl, item) == {p \in tbl : p.sig # item.sig} \cup {item}

\* what a batch_writer of two items may have written when it returns or
\* raises: BatchWriteItem is not a transaction
BatchOutcomes == {"both", "first", "second", "none"}

\* order of the sort keys "QUOTE#<createdAt>#<uuid>"
QuoteKeyLess(a, b) ==
    \/ a.createdAt < b.createdAt
    \/ a.createdAt = b.createdAt /\ StrLess(a.uid, b.uid)

\* fault variant of GetLatestQuoteForHash: the query reads forward
GetLatestQuoteForHashForward(tbl, hash) ==
    LET part == {q \in tbl : q.hash = hash}
    IN  IF part = {} THEN <<>>
        ELSE CHOOSE q \in part : \A r \in part \ {q} : QuoteKeyLess(q, r)

\* get_latest_quote_for_hash, storage.py lines 38-46
GetLatestQuoteForHash(tbl, hash) ==
    LET part == {q \in tbl : q.hash = hash}
    IN  IF part = {} THEN <<>>
        ELSE CHOOSE q \in part : \A r \in part \ {q} : QuoteKeyLess(r, q)

\* get_quote_pointer, storage.py lines 32-35
GetQuotePointer(tbl, sig) ==
    LET found == {p \in tbl : p.sig = sig}
    IN  IF found = {} THEN <<>> ELSE CHOOSE p \in found : TRUE

\* cart-quote lambda_handler, lines 256-347
CreateQuote(items, uid, outcome) ==
    LET n == quoteOps + 1
        q == QuoteItem(items, now, uid)
        written == outcome \in {"both", "first"}
        pointed == outcome \in {"both", "second"}
        after == IF written THEN PutQuote(quotes, q) ELSE quotes
        latest == IF GetLatestQuoteForHash(after, q.hash) = <<>> THEN q
                  ELSE GetLatestQuoteForHash(after, q.hash)
    IN  /\ quoteOps' = n
        /\ IF items = <<>>
           THEN /\ outcome = "both"
                /\ cq' = [NoQuoteResponse EXCEPT !.n = n, !.code = 400]
                /\ UNCHANGED <<quotes, quotePointers, faults>>
           ELSE /\ \A r \in quotes : ~( /\ r.hash = q.hash /\ r.uid = uid
                                        /\ r.createdAt = q.createdAt )
                /\ outcome # "both" => faults < MaxFaults
                /\ faults' = IF outcome = "both" THEN faults ELSE faults + 1
                /\ quotes' = after
                /\ quotePointers' = IF pointed
                                    THEN PutQuotePointer(quotePointers, QuotePointerItem(q))
                                    ELSE quotePointers
                /\ cq' = IF outcome # "both"
                         THEN [NoQuoteResponse EXCEPT !.n = n, !.code = 500]
                         ELSE [n |-> n, code |-> 200,
                               quoteSignature |-> q.quoteSignature,
                               quoteCreatedAt |-> latest.createdAt,
                               normalizedHash |-> q.hash, expiresAt |-> q.expiresAt]
        /\ UNCHANGED <<stripe, now, ticks, deliveries, sweeps, lookups, store,
                       wh, sw, go, opened, co, norm>>

\* fault variant of QuoteExpired: the pointer's expiry is not looked at
QuoteExpiredNever(pointer, t) == FALSE

\* checkout-create-session lines 294-302
QuoteExpired(pointer, t) == pointer.expiresAt # 0 /\ pointer.expiresAt <= t

\* _build_line_items, lines 190-231, for one item: a price reference is
\* preferred, an amount is the fallback, an item with neither maps to nothing
LineItemOf(item) ==
    LET priceId == ItemGet(item, KeyStripePriceId)
        amount == ItemGet(item, KeyUnitAmount)
    IN  IF priceId[1] = "str" /\ priceId[2] # <<>> THEN <<"price", priceId[2]>>
        ELSE IF amount[1] = "num" /\ amount[2] * 100 > 0
        THEN <<"price_data", amount[2] * 100>>
        ELSE <<>>

\* fault variant of BuildLineItems: every item becomes a line item
BuildLineItemsAll(items) == [i \in DOMAIN items |-> <<"price_data", 0>>]

\* _build_line_items, lines 190-231
BuildLineItems(items) ==
    LET kept == SelectSeq(items, LAMBDA item : LineItemOf(item) # <<>>)
    IN  [i \in DOMAIN kept |-> LineItemOf(kept[i])]

\* put_item of the two session records (lines 440-479)
PutSessionItem(tbl, item) ==
    {i \in tbl : ~(i.sig = item.sig /\ i.sid = item.sid)} \cup {item}
PutSessionPointer(tbl, item) == {p \in tbl : p.sid # item.sid} \cup {item}

\* f"sess_{uuid.uuid4().hex}" and the id the processor gives the session it
\* opens: fresh for every request
NewSessionId(n) == <<"s","e","s","s","_">> \o IntToStr(n)
NewStripeSessionId(n) == <<"c","s","_">> \o IntToStr(n)

\* the price the processor has on file for a price reference
ProcessorPrice == 1500

\* amount_total of a session: the processor's sum over the line items
RECURSIVE ProcessorTotal(_)
ProcessorTotal(lineItems) ==
    IF lineItems = <<>> THEN 0
    ELSE (IF Head(lineItems)[1] = "price" THEN ProcessorPrice ELSE Head(lineItems)[2])
         + ProcessorTotal(Tail(lineItems))

\* who a checkout request is made for: payload.metadata.userId, and the
\* e-mail address the processor reports for the customer (customerEmail of
\* the payload, or the address entered on the processor's payment page)
DefaultOwner == [userId |-> UserU1, email |-> EmailAX]
OwnerChoices == {DefaultOwner, [userId |-> <<>>, email |-> EmailPlus]}

\* checkout-create-session lambda_handler, lines 276-506; allowed is the
\* answer of check_rate_limit, apiOk is FALSE when Session.create raises a
\* StripeError, outcome is what put_session_records wrote
CreateCheckoutSession(sig, owner, allowed, apiOk, outcome) ==
    LET n == quoteOps + 1
        pointer == GetQuotePointer(quotePointers, sig)
        quote == IF pointer = <<>> THEN <<>>
                 ELSE GetLatestQuoteForHash(quotes, pointer.normalizedHash)
        lineItems == IF quote = <<>> THEN <<>> ELSE BuildLineItems(quote.requestItems)
        base == [NoCheckoutResponse EXCEPT !.n = n, !.sig = sig]
        early ==
            IF sig = <<>>
            THEN [base EXCEPT !.code = 400, !.error = "quoteSignature is required"]
            ELSE IF ~allowed
            THEN [base EXCEPT !.code = 429, !.error = "Too many requests"]
            ELSE IF pointer = <<>>
            THEN [base EXCEPT !.code = 404, !.error = "Quote not found or expired"]
            ELSE IF QuoteExpired(pointer, now)
            THEN [base EXCEPT !.code = 410, !.error = "Quote has expired"]
            ELSE IF quote = <<>>
            THEN [base EXCEPT !.code = 404, !.error = "Quote cache not found"]
            ELSE IF lineItems = <<>>
            THEN [base EXCEPT !.code = 400,
                              !.error = "Quote items are missing Stripe pricing details"]
            ELSE base
        sessionId == NewSessionId(n)
        stripeId == NewStripeSessionId(n)
        sessionItem == [sig |-> sig, sid |-> sessionId, status |-> "created"]
        pointerItem == [sid |-> sessionId, status |-> "created", quoteSignature |-> sig]
    IN  /\ quoteOps' = n
        /\ IF early.code # 0
           THEN /\ apiOk /\ outcome = "both"
                /\ (sig = <<>> => allowed)
                /\ owner = DefaultOwner
                /\ co' = early
                /\ UNCHANGED <<stripe, faults, opened, sessionItems, pointerItems>>
           ELSE IF ~apiOk
           THEN /\ outcome = "both" /\ faults < MaxFaults
                /\ faults' = faults + 1
                /\ owner = DefaultOwner
                /\ co' = [base EXCEPT !.code = 502,
                                      !.error = "Unable to create Stripe checkout session"]
                /\ UNCHANGED <<stripe, opened, sessionItems, pointerItems>>
           ELSE /\ outcome # "both" => faults < MaxFaults
                /\ faults' = IF outcome = "both" THEN faults ELSE faults + 1
                /\ opened' = opened \cup
                       {[sid |-> stripeId, sessionId |-> sessionId,
                         quoteSignature |-> sig,
                         normalizedHash |-> pointer.normalizedHash,
                         lineItems |-> lineItems,
                         userId |-> owner.userId, email |-> owner.email,
                         created |-> now, amount |-> ProcessorTotal(lineItems)]}
                /\ stripe' = [s \in DOMAIN stripe \cup {stripeId} |->
                                 IF s = stripeId THEN "open" ELSE stripe[s]]
                /\ sessionItems' = IF outcome \in {"both", "first"}
                                   THEN PutSessionItem(sessionItems, sessionItem)
                                   ELSE sessionItems
                /\ pointerItems' = IF outcome \in {"both", "second"}
                                   THEN PutSessionPointer(pointerItems, pointerItem)
                                   ELSE pointerItems
                /\ co' = IF outcome # "both" THEN [base EXCEPT !.code = 500]
                         ELSE [base EXCEPT !.code = 200, !.quote = quote,
                                           !.sessionId = sessionId,
                                           !.stripeSessionId = stripeId]
        /\ UNCHANGED <<now, ticks, deliveries, sweeps, lookups,
                       orders, eventRecs, syncState, wh, sw, go,
                       quotes, quotePointers, cq, norm>>

\* _generate_order_number of the webhook and of the sweep applied to one
\* session id at the current time
GenerateOrderNumbers ==
    /\ norm.pc = "sid"
    /\ norm' = [norm EXCEPT !.pc = "number",
                            !.out = GenerateOrderNumberWebhook(norm.items, now),
                            !.outOther = GenerateOrderNumberSync(norm.items, now)]
    /\ UNCHANGED <<stripe, now, counters, store, wh, sw, go,
                   quotes, quotePointers, opened, cq, co, quoteOps>>

\* the carts of up to MaxItems entries
CartsOfLen(n) == [1..n -> AllItems]

\* normalize_items and hash_normalized_cart applied to two carts
NormalizeCarts ==
    /\ norm.pc = "in"
    /\ norm' = [norm EXCEPT !.pc = "out",
                            !.out = NormalizeItems(norm.items),
                            !.outOther = NormalizeItems(norm.other),
                            !.hash = HashNormalizedCart(NormalizeItems(norm.items)),
                            !.hashOther = HashNormalizedCart(NormalizeItems(norm.other))]
    /\ UNCHANGED <<stripe, now, counters, store, wh, sw, go,
                   quotes, quotePointers, opened, cq, co, quoteOps>>

(***************************************************************************)
(* Environment: the customer pays, time passes.                            *)
(***************************************************************************)
ProcessorComplete(sid) ==
    /\ sid \in DOMAIN stripe
    /\ stripe[sid] = "open"
    /\ stripe' = [stripe EXCEPT ![sid] = "complete"]
    /\ UNCHANGED <<now, counters, store, wh, sw, go, quoteVars>>

\* one second, or long enough to use up a delivery's processing budget
TickSteps == {1, MAX_PROCESSING_TIME_SECONDS}

Tick(d) ==
    /\ ticks < MaxTicks
    /\ ticks' = ticks + 1
    /\ now' = now + d
    /\ UNCHANGED <<stripe, faults, deliveries, sweeps, lookups, store, wh, sw, go, quoteVars>>

(***************************************************************************)
(* Specifications.                                                         *)
(***************************************************************************)
\* maxLive: how many sessions the processor holds; failed: how much of the
\* failure budget is already used up (MaxFaults: no call ever fails)
InitWith(maxLive, failed) ==
    /\ \E S \in SUBSET AllSessionIds :
          /\ Cardinality(S) >= 1
          /\ Cardinality(S) <= maxLive
          /\ stripe = [s \in S |-> "open"]
    /\ now = T0
    /\ ticks = 0 /\ faults = failed /\ deliveries = 0 /\ sweeps = 0 /\ lookups = 0
    /\ orders = {} /\ eventRecs = {} /\ sessionItems = {} /\ pointerItems = {}
    /\ syncState = NoSync
    /\ wh = [w \in Workers |-> IdleWorker]
    /\ sw = [k \in Sweepers |-> IdleSweeper]
    /\ go = IdleLookup
    /\ quotes = {} /\ quotePointers = {} /\ opened = {}
    /\ cq = NoQuoteResponse /\ co = NoCheckoutResponse
    /\ quoteOps = 0 /\ norm = NoNorm

Started == deliveries + sweeps + lookups

\* a verified, well-formed delivery arrives
WebhookAccept(W, types, cap) ==
    \E w \in W, sid \in DOMAIN stripe, type \in types, readOk \in BOOLEAN :
        Started < cap /\ WhReceive(w, "ok", [sid |-> sid, type |-> type], readOk)

\* a request arrives that fails verification
WebhookReject(W, types, cap) ==
    \E w \in W, kind \in RequestKinds \ {"ok"}, sid \in DOMAIN stripe, type \in types :
        Started < cap /\ WhReceive(w, kind, [sid |-> sid, type |-> type], TRUE)

\* a delivery in flight takes its next step
WebhookProgress(W) ==
    \E w \in W :
        \/ \E ptrOk, updOk \in BOOLEAN : WhUpdateSession(w, ptrOk, updOk)
        \/ \E updOk \in BOOLEAN : WhUpdatePointer(w, updOk)
        \/ \E putOk \in BOOLEAN : WhMaterialize(w, putOk)
        \/ \E recOk \in BOOLEAN : WhRecord(w, recOk)
        \/ WhReturn(w)

WebhookStep(W, types, cap) ==
    \/ WebhookAccept(W, types, cap)
    \/ WebhookReject(W, types, cap)
    \/ WebhookProgress(W)

SweepStep(K, cap, hourChoices, maxChoices) ==
    \E k \in K :
        \/ \E hours \in hourChoices, maxS \in maxChoices,
              dry, listOk \in BOOLEAN :
               Started < cap /\ SweepStart(k, hours, maxS, dry, listOk)
        \/ \E readOk, pageOk \in BOOLEAN : SweepIterate(k, readOk, pageOk)
        \/ \E putOk \in BOOLEAN : SweepWrite(k, putOk)
        \/ \E putOk \in BOOLEAN : SweepFinish(k, putOk)
        \/ SweepReturn(k)

LookupStep(cap) ==
    \/ \E user \in CallerIds, oid \in AllSessionIds, readOk, apiOk \in BOOLEAN :
           Started < cap /\ GoRequest(user, oid, readOk, apiOk)
    \/ \E putOk \in BOOLEAN : GoCache(putOk)
    \/ GoReturn

EnvStep ==
    \/ \E sid \in AllSessionIds : ProcessorComplete(sid)
    \/ \E d \in TickSteps : Tick(d)

\* The whole pipeline: one webhook worker, one sweep instance and the order
\* lookup run concurrently; the webhook receives a completion event or an
\* expiry, the sweep runs with its default configuration.
PipelineTypes == {"checkout.session.completed", "checkout.session.expired"}
Next == \/ WebhookStep({"w1"}, PipelineTypes, MaxOps)
        \/ SweepStep({"s1"}, MaxOps, {DEFAULT_LOOKBACK_HOURS}, {DEFAULT_MAX_SESSIONS})
        \/ LookupStep(MaxOps)
        \/ EnvStep
Init == InitWith(MaxLive, 0)
Spec == Init /\ [][Next]_vars

\* Webhook ingestion alone: two workers; one event type for each way the
\* handler treats a type (the two completion types, a mapped non-completion
\* type, an unmapped type).
WebhookTypes == COMPLETION_EVENTS \cup {"checkout.session.expired", "checkout.session.other"}
NextWebhook == WebhookStep(Workers, WebhookTypes, MaxDeliveries) \/ EnvStep
InitWebhook == InitWith(MaxLiveWebhook, 0)
SpecWebhook == InitWebhook /\ [][NextWebhook]_vars

\* The sweep alone (no webhook is ever delivered): runs one after another.
NextSweep == SweepStep({"s1"}, MaxSweeps, LookbackChoices, MaxSessionsChoices) \/ EnvStep
SpecSweep == Init /\ [][NextSweep]_vars

\* Redelivery: the processor delivers the completion event of its one session
\* again and again, each delivery after the previous one has returned, while
\* the sweep runs on its schedule; no store or processor call fails.
NextRedelivery ==
    \/ WebhookAccept({"w1"}, {"checkout.session.completed"}, MaxDeliveries + MaxSweeps)
    \/ WebhookProgress({"w1"})
    \/ SweepStep({"s1"}, MaxDeliveries + MaxSweeps, LookbackChoices, MaxSessionsChoices)
    \/ EnvStep
InitRedelivery == InitWith(MaxLiveWebhook, MaxFaults)
SpecRedelivery == InitRedelivery /\ [][NextRedelivery]_vars

\* Quotes and checkout sessions, with webhook ingestion of the sessions the
\* processor already holds and the sweep; a request or an invocation starts
\* when the one before it has ended.  The clock advances by a second or past
\* the lifetime of a quote.
QuoteTickSteps == {1, QuoteTtlMinutes * SecondsPerMinute + 1}
SigChoices == {q.quoteSignature : q \in quotes} \cup {p.sig : p \in quotePointers}
              \cup {SigQ1, <<>>}
QuoteStep(cap) ==
    \E items \in CartChoices, uid \in UuidPool, outcome \in BatchOutcomes :
        quoteOps + Started < cap /\ CreateQuote(items, uid, outcome)
CheckoutStep(cap, owners) ==
    \E sig \in SigChoices, owner \in owners, allowed, apiOk \in BOOLEAN,
       outcome \in BatchOutcomes :
        quoteOps + Started < cap
        /\ CreateCheckoutSession(sig, owner, allowed, apiOk, outcome)
AllIdle == /\ \A w \in Workers : wh[w].pc = "idle"
           /\ \A k \in Sweepers : sw[k].pc = "idle"
NextCheckout ==
    \/ AllIdle /\ QuoteStep(MaxQuoteOps)
    \/ AllIdle /\ CheckoutStep(MaxQuoteOps, {DefaultOwner})
    \/ AllIdle /\ WebhookAccept({"w1"}, {"checkout.session.completed"},
                                 MaxQuoteOps - quoteOps)
    \/ WebhookProgress({"w1"})
    \/ ( /\ \A w \in Workers : wh[w].pc = "idle"
         /\ SweepStep({"s1"}, MaxQuoteOps - quoteOps, {DEFAULT_LOOKBACK_HOURS},
                      {DEFAULT_MAX_SESSIONS}) )
    \/ \E sid \in AllSessionIds : ProcessorComplete(sid)
    \/ \E d \in QuoteTickSteps : Tick(d)
\* the processor holds one session, made before the behaviour starts
InitCheckout == InitWith(MaxLiveWebhook, 0) /\ DOMAIN stripe = {SidA}
SpecCheckout == InitCheckout /\ [][NextCheckout]_vars

\* normalize_items on every pair of carts of the same length
NextNormalize == NormalizeCarts
InitNormalize ==
    /\ stripe = [s \in {SidA} |-> "open"]
    /\ now = T0
    /\ ticks = 0 /\ faults = 0 /\ deliveries = 0 /\ sweeps = 0 /\ lookups = 0
    /\ orders = {} /\ eventRecs = {} /\ sessionItems = {} /\ pointerItems = {}
    /\ syncState = NoSync
    /\ wh = [w \in Workers |-> IdleWorker]
    /\ sw = [k \in Sweepers |-> IdleSweeper]
    /\ go = IdleLookup
    /\ quotes = {} /\ quotePointers = {} /\ opened = {}
    /\ cq = NoQuoteResponse /\ co = NoCheckoutResponse
    /\ quoteOps = 0
    /\ \E n \in 1..MaxItems : \E a, b \in CartsOfLen(n) :
           norm = [NoNorm EXCEPT !.pc = "in", !.items = a, !.other = b]
SpecNormalize == InitNormalize /\ [][NextNormalize]_vars

\* _generate_order_number on every session id of up to MaxIdLen characters
\* over a lower-case letter, a digit, and a character that is neither
IdChars == {"a", "7", "_"}
NextOrderNumber == GenerateOrderNumbers
InitOrderNumber ==
    /\ stripe = [s \in {SidA} |-> "open"]
    /\ now = T0
    /\ ticks = 0 /\ faults = 0 /\ deliveries = 0 /\ sweeps = 0 /\ lookups = 0
    /\ orders = {} /\ eventRecs = {} /\ sessionItems = {} /\ pointerItems = {}
    /\ syncState = NoSync
    /\ wh = [w \in Workers |-> IdleWorker]
    /\ sw = [k \in Sweepers |-> IdleSweeper]
    /\ go = IdleLookup
    /\ quotes = {} /\ quotePointers = {} /\ opened = {}
    /\ cq = NoQuoteResponse /\ co = NoCheckoutResponse
    /\ quoteOps = 0
    /\ \E n \in 0..MaxIdLen : \E sid \in [1..n -> IdChars] :
           norm = [NoNorm EXCEPT !.pc = "sid", !.items = sid]
SpecOrderNumber == InitOrderNumber /\ [][NextOrderNumber]_vars

\* Deliveries first, sweep runs afterwards: no delivery starts once a sweep
\* run has started and no run starts while a delivery is in flight, so that
\* during a run only the run itself touches the store.
NextDryRun ==
    \/ sweeps = 0 /\ WebhookAccept({"w1"}, {"checkout.session.completed"},
                                    MaxDeliveries + MaxSweeps)
    \/ WebhookProgress({"w1"})
    \/ ( /\ \A w \in Workers : wh[w].pc = "idle"
         /\ SweepStep({"s1"}, MaxDeliveries + MaxSweeps, {DEFAULT_LOOKBACK_HOURS},
                      MaxSessionsChoices) )
    \/ EnvStep
SpecDryRun == Init /\ [][NextDryRun]_vars

\* From the cart to the order: a quote, a checkout session for it, the
\* customer's payment and the deliveries of the processor's events about the
\* sessions it holds, one request or invocation at a time.
LinkedTypes == {"checkout.session.completed", "checkout.session.expired"}
NextLinked ==
    \/ AllIdle /\ QuoteStep(MaxQuoteOps)
    \/ AllIdle /\ CheckoutStep(MaxQuoteOps, OwnerChoices)
    \/ AllIdle /\ WebhookAccept({"w1"}, LinkedTypes, MaxQuoteOps - quoteOps)
    \/ WebhookProgress({"w1"})
    \/ \E sid \in DOMAIN stripe \ AllSessionIds : ProcessorComplete(sid)
    \/ \E d \in QuoteTickSteps : Tick(d)
SpecLinked == InitCheckout /\ [][NextLinked]_vars

\* Overlapping sweeps: two instances of the sweep run at the same time over
\* the same window with the default configuration; no webhook is delivered
\* and no order is looked up.
NextOverlap ==
    \/ SweepStep(Sweepers, MaxSweeps, {DEFAULT_LOOKBACK_HOURS}, {DEFAULT_MAX_SESSIONS})
    \/ EnvStep
SpecOverlap == Init /\ [][NextOverlap]_vars

\* The sweep as the backstop: the completion event is delivered at most
\* once, before the first run, and the delivery may fail at any of its calls
\* or not happen at all; then sweep runs are started one after another, with
\* either lookback and the default cap, none of them a dry run.  A delivery
\* or a run that can take a step eventually takes one.
BackstopSweep ==
    /\ \A w \in Workers : wh[w].pc = "idle"
    /\ SweepStep({"s1"}, MaxDeliveries + MaxSweeps, LookbackChoices,
                 {DEFAULT_MAX_SESSIONS})
    /\ ~sw'["s1"].dryRun
NextBackstop ==
    \/ WebhookAccept({"w1"}, {"checkout.session.completed"}, 1)
    \/ WebhookProgress({"w1"})
    \/ BackstopSweep
    \/ EnvStep
SpecBackstop ==
    /\ Init /\ [][NextBackstop]_vars
    /\ WF_vars(WebhookProgress({"w1"})) /\ WF_vars(BackstopSweep)

(***************************************************************************)
(* Properties.                                                             *)
(***************************************************************************)

\* C1: for every processor session id at most one Order Snapshot exists in
\* the store, whichever paths (webhook, sweep, dashboard lookup) materialized
\* it and however often.
C1_OneOrderPerSession ==
    \A sid \in AllSessionIds : Cardinality(OrdersForSession(orders, sid)) <= 1

\* C2: when the completion event of the one session is delivered N >= 1
\* times, each delivery after the previous one returned, there is exactly one
\* Event Record for it and at most one Order Snapshot for its session, and
\* every delivery after the first answers with the recorded status and writes
\* no order.
C2_RedeliveryIdempotent ==
    \A sid \in DOMAIN stripe :
        LET e == [sid |-> sid, type |-> "checkout.session.completed"]
            w == wh["w1"]
        IN  (DOMAIN stripe = {sid} /\ deliveries >= 1 /\ w.pc \in {"idle", "done"}) =>
                /\ Cardinality(EventRecordOf(eventRecs, e)) = 1
                /\ Cardinality(OrdersForSession(orders, sid)) <= 1
                /\ (deliveries >= 2 /\ w.pc = "done") =>
                       /\ w.dedup = "present"
                       /\ w.resp.status = "completed"
                       /\ w.snap = <<>>

\* C3 (as amended): a verified delivery whose Event Record already exists,
\* and whose idempotency read of that record succeeds, is answered at once
\* with success and the status stored in the record, and from its arrival to
\* its return the store is not written.
C3_DuplicateShortCircuits ==
    [][\A w \in Workers :
          /\ ( /\ wh[w].pc = "idle" /\ wh'[w].pc # "idle"
               /\ wh'[w].kind = "ok"
               /\ wh'[w].dedup # "error"
               /\ EventRecordOf(eventRecs, wh'[w].ev) # {} )
             => /\ wh'[w].pc = "done"
                /\ wh'[w].dedup = "present"
                /\ wh'[w].resp.code = 200
                /\ \A r \in EventRecordOf(eventRecs, wh'[w].ev) :
                       wh'[w].resp.status = r.status
                /\ store' = store
          /\ (wh[w].dedup = "present" /\ wh'[w] # wh[w]) => store' = store
      ]_vars

\* C3 witness: a duplicate of a completion event was answered from its Event
\* Record while the order of the first delivery is in the store.
C3_Witness ==
    \E w \in Workers :
        /\ wh[w].pc = "done" /\ wh[w].dedup = "present"
        /\ wh[w].resp.code = 200 /\ wh[w].resp.status = "completed"
        /\ EventRecordOf(eventRecs, wh[w].ev) # {}
        /\ OrdersForSession(orders, wh[w].ev.sid) # {}

\* C3 as first stated: every verified delivery whose Event Record already
\* exists is answered at once with the stored status and writes nothing.
C3_Original ==
    [][\A w \in Workers :
          ( /\ wh[w].pc = "idle" /\ wh'[w].pc # "idle"
            /\ wh'[w].kind = "ok"
            /\ EventRecordOf(eventRecs, wh'[w].ev) # {} )
          => /\ wh'[w].pc = "done"
             /\ wh'[w].resp.code = 200
             /\ \A r \in EventRecordOf(eventRecs, wh'[w].ev) :
                    wh'[w].resp.status = r.status
             /\ store' = store
      ]_vars

\* C4: when two deliveries of one completion event both pass the idempotency
\* read before an Event Record of the event exists and both go through the
\* materialization step, at most one Order Snapshot exists for the session.
C4_ConcurrentDeliveriesOneOrder ==
    \A e \in Events :
        ( /\ e.type \in COMPLETION_EVENTS
          /\ \A w \in Workers :
                /\ wh[w].kind = "ok" /\ wh[w].ev = e
                /\ wh[w].dedup = "absent"
                /\ wh[w].pc \in {"record", "done"} )
        => Cardinality(OrdersForSession(orders, e.sid)) <= 1

\* C5: when a webhook delivery and a sweep run overlap and both have
\* materialized one completed session, exactly one Order Snapshot exists for
\* it afterwards.
C5_WebhookSweepOneOrder ==
    \A sid \in DOMAIN stripe :
        LET w == wh["w1"]
            s == sw["s1"]
        IN  ( /\ w.kind = "ok" /\ w.ev.sid = sid
              /\ w.ev.type \in COMPLETION_EVENTS
              /\ w.pc \in {"record", "done"} /\ w.snap # <<>>
              /\ s.pc \in {"iter", "finish", "done"} /\ ~s.dryRun
              /\ sid \in ProcessedBy(s) )
            => Cardinality(OrdersForSession(orders, sid)) = 1

\* C6: every verified delivery is answered with success, whether or not the
\* idempotency read, the session-status update, the order write or the Event
\* Record write failed on the way.
C6_VerifiedDeliverySucceeds ==
    \A w \in Workers :
        (wh[w].kind = "ok" /\ wh[w].pc = "done") => wh[w].resp.code = 200

\* C6 witness: the only delivery so far was processed, its Event Record write
\* failed, and the answer was success.
C6_Witness ==
    \E w \in Workers :
        /\ wh[w].kind = "ok" /\ wh[w].pc = "done" /\ wh[w].dedup = "absent"
        /\ wh[w].resp.code = 200
        /\ deliveries = 1 /\ faults = 1 /\ eventRecs = {}

\* C7: a request that fails verification (no signature, wrong signature,
\* signature older than the tolerance, unparseable payload, no event id or
\* type) is answered with a client error, and from its arrival to its return
\* the store is not written.
C7_RejectedRequestWritesNothing ==
    [][\A w \in Workers :
          ( /\ wh'[w] # wh[w]
            /\ \/ wh[w].kind \in RequestKinds \ {"ok"}
               \/ wh'[w].kind \in RequestKinds \ {"ok"} )
          => /\ store' = store
             /\ wh'[w].pc \in {"idle", "done"}
             /\ wh'[w].pc = "done" => wh'[w].resp.code = 400
      ]_vars

\* C7 witness: a request with a stale signature was turned away while the
\* store holds the records of an earlier delivery.
C7_Witness ==
    \E w \in Workers :
        /\ wh[w].kind = "stale" /\ wh[w].pc = "done" /\ wh[w].resp.code = 400
        /\ eventRecs # {}

\* C8: when k sessions with resolvable owners and no order yet lie in the
\* window (k within the session cap), a first run, meeting no failure,
\* reports k created orders and leaves k Order Snapshots; a second run over
\* the same window reports no created order.
C8_SecondRunCreatesNothing ==
    LET s == sw["s1"]
        allOwned == \A sid \in ProcessedBy(s) : SyncOwner(SessionData(sid)) # <<>>
        reachedEnd == s.processed = Len(s.listing)
    IN  /\ ( /\ sweeps = 1 /\ s.pc = "finish" /\ ~s.dryRun /\ faults = 0
             /\ reachedEnd /\ allOwned )
           => /\ s.created = s.processed
              /\ Cardinality(orders) = s.processed
        /\ ( /\ sweeps = 2 /\ s.pc = "finish" /\ ~s.dryRun /\ faults = 0
             /\ reachedEnd /\ allOwned
             /\ syncState.written
             /\ syncState.lastLookbackStart = s.sinceTs
             /\ syncState.lastLookbackEnd = s.nowTs
             /\ syncState.lastSyncProcessed = s.processed
             /\ syncState.lastSyncCreated = s.processed )
           => s.created = 0

C10_SweepSkipsExistingOrder ==
    [][\A k \in Sweepers :
          (sw[k].pc = "iter" /\ sw'[k].processed = sw[k].processed + 1) =>
              LET sid == sw'[k].listing[sw'[k].processed]
              IN  OrdersForSession(orders, sid) # {} =>
                      /\ sw'[k].pc = "iter"
                      /\ sw'[k].skipped = sw[k].skipped + 1
                      /\ sw'[k].created = sw[k].created
      ]_vars

\* C11: a completion event whose session already has an Order Snapshot when
\* the delivery reaches the materializer writes no order: the store's orders
\* stay as they are and the materializer returns no order number.
C11_CompletionAfterOrderWritesNothing ==
    [][\A w \in Workers :
          ( /\ wh[w].pc = "order" /\ wh'[w].pc = "record"
            /\ wh[w].ev.type \in COMPLETION_EVENTS
            /\ OrdersForSession(orders, wh[w].ev.sid) # {} )
          => /\ orders' = orders
             /\ wh'[w].snap = <<>>
      ]_vars

\* C14: whenever no status update of a session is between its two writes,
\* the quote-to-session record and the session-to-quote pointer of that
\* session carry the same status.
C14_SessionRecordsSameStatus ==
    \A i \in sessionItems, p \in pointerItems :
        ( /\ i.sid = p.sid
          /\ \A w \in Workers : ~(wh[w].pc = "pointer" /\ wh[w].ev.sid = i.sid) )
        => i.status = p.status

\* C19: a dry run writes nothing, and when it has gone through its listing
\* without a failure the order numbers it reports as created are those a run
\* that is not a dry run would have created from the same store.
C19_DryRunReportsWhatARunCreates ==
    [][\A k \in Sweepers :
          /\ (sw[k].pc # "idle" /\ sw[k].dryRun /\ sw'[k] # sw[k]) =>
                 store' = store
          /\ ( /\ sw[k].pc = "iter" /\ sw'[k].pc = "finish"
               /\ sw[k].dryRun /\ faults' = 0 )
             => /\ sw'[k].createdOrders =
                       RunCreates(orders, sw[k].listing, 1, sw[k].processed,
                                  sw[k].startedAt)
                /\ sw'[k].created = Len(sw'[k].createdOrders)
      ]_vars

\* C20 (as amended): when the processor API fails while a run that is not a
\* dry run enumerates sessions, the run leaves the loop with the error
\* counted, keeps the orders it wrote before, persists Sync State and returns
\* a summary with at least one error.
C20_EnumerationFailureIsReported ==
    [][\A k \in Sweepers :
          /\ ( /\ sw[k].pc = "iter" /\ sw'[k] # sw[k]
               /\ faults' = faults + 1
               /\ sw'[k].processed = sw[k].processed )
             => /\ sw'[k].pc = "finish"
                /\ sw'[k].errors = sw[k].errors + 1
                /\ store' = store
          /\ ( /\ sw[k].pc = "finish" /\ sw'[k].pc = "done"
               /\ sw[k].errors >= 1 /\ faults' = 1 /\ ~sw[k].dryRun )
             => /\ sw'[k].result.errors >= 1
                /\ syncState'.written
                /\ syncState'.lastSyncStartedAt = sw[k].startedAt
                /\ syncState'.lastSyncErrors = sw[k].errors
                /\ syncState'.lastSyncCreated = sw[k].created
                /\ orders' = orders
                /\ \A i \in DOMAIN sw[k].createdOrders :
                      \E o \in orders : /\ o.orderNumber = sw[k].createdOrders[i]
                                        /\ o.source = "nightly_sync"
      ]_vars

\* C20 witness: a run wrote an order, then the enumeration failed, and the
\* run ended with the order kept, the error counted and Sync State persisted.
C20_Witness ==
    \E k \in Sweepers :
        /\ sw[k].pc = "done" /\ ~sw[k].dryRun
        /\ sw[k].result.errors = 1 /\ sw[k].result.created >= 1
        /\ sw[k].processed < Len(sw[k].listing)
        /\ syncState.written /\ syncState.lastSyncErrors = 1
        /\ orders # {}

\* C20 as first stated: every run whose enumeration fails, a dry run
\* included, persists Sync State.
C20_Original ==
    [][\A k \in Sweepers :
          ( /\ sw[k].pc = "finish" /\ sw'[k].pc = "done"
            /\ sw[k].errors >= 1 /\ faults' = 1 )
          => /\ sw'[k].result.errors >= 1
             /\ syncState'.written
             /\ syncState'.lastSyncStartedAt = sw[k].startedAt
             /\ syncState'.lastSyncErrors = sw[k].errors
             /\ orders' = orders
      ]_vars

C13_ClientErrorWritesNothing ==
    [][co'.n # co.n =>
         /\ co'.code \in {400, 404} =>
               /\ store' = store /\ quotes' = quotes /\ quotePointers' = quotePointers
               /\ opened' = opened /\ stripe' = stripe
         /\ (co'.code # 429 /\ co'.sig # <<>>) =>
               /\ (\A p \in quotePointers : p.sig # co'.sig) => co'.code = 404
               /\ \A p \in quotePointers :
                     (p.sig = co'.sig /\ p.expiresAt > now) =>
                        /\ (\A q \in quotes : q.hash # p.normalizedHash)
                              => co'.code = 404
                        /\ ( /\ \E q \in quotes : q.hash = p.normalizedHash
                             /\ \A q \in quotes : q.hash = p.normalizedHash =>
                                   \A i \in DOMAIN q.requestItems :
                                      /\ ItemGet(q.requestItems[i], KeyStripePriceId) = Null
                                      /\ ItemGet(q.requestItems[i], KeyUnitAmount) = Null )
                              => co'.code = 400
      ]_vars

\* C13 witness: a request for a stored, unexpired quote with no priceable item
\* was answered 400 and there is no session.
C13_Witness ==
    /\ co.code = 400 /\ co.sig # <<>>
    /\ \E p \in quotePointers :
          /\ p.sig = co.sig /\ p.expiresAt > now
          /\ \E q \in quotes : q.hash = p.normalizedHash
    /\ opened = {} /\ sessionItems = {} /\ pointerItems = {}

\* C15: of the two records of a session that checkout-session creation writes,
\* either both are stored or neither is, and a request answered 200 has stored
\* both.
C15_SessionRecordsAllOrNothing ==
    /\ \A n \in 1..MaxQuoteOps :
          (\E i \in sessionItems : i.sid = NewSessionId(n))
              <=> (\E p \in pointerItems : p.sid = NewSessionId(n))
    /\ co.code = 200 =>
          /\ \E i \in sessionItems : i.sid = co.sessionId /\ i.sig = co.sig
          /\ \E p \in pointerItems : p.sid = co.sessionId /\ p.quoteSignature = co.sig

\* C16: two carts that are permutations of each other, items being the same
\* when their fields with a value other than null are the same, have the same
\* normalization and the same normalizedHash.
C16_NormalizationIgnoresOrderAndNulls ==
    ( /\ norm.pc = "out"
      /\ \E pi \in Permutations(DOMAIN norm.items) :
            \A i \in DOMAIN norm.items :
               {norm.items[i][j] : j \in {k \in DOMAIN norm.items[i] :
                                            norm.items[i][k][2] # Null}}
               = {norm.other[pi[i]][j] : j \in {k \in DOMAIN norm.other[pi[i]] :
                                                  norm.other[pi[i]][k][2] # Null}} )
    => /\ norm.out = norm.outOther
       /\ norm.hash = norm.hashOther

\* C16 witness: two carts of two items, in opposite orders and one of them
\* with a null field, were normalized to the same text.
C16_Witness ==
    /\ norm.pc = "out"
    /\ norm.items = <<ItemAdHoc, ItemPricedNull>>
    /\ norm.other = <<ItemPricedRev, ItemAdHoc>>
    /\ norm.out = norm.outOther /\ norm.hash = norm.hashOther

\* C17 (as amended): a successful CreateQuote adds one quote record and keeps
\* every record stored before, so the same cart submitted twice is stored
\* twice; resolving a signature whose own quote is stored yields the most
\* recently created quote of that cart, which is the instance created with
\* the signature exactly when no later one exists.
C17_RepeatedCartsKeepBothQuotes ==
    [][/\ (cq'.n # cq.n /\ cq'.code = 200) =>
             /\ \A q \in quotes : q \in quotes'
             /\ Cardinality(quotes') = Cardinality(quotes) + 1
             /\ \E q \in quotes' \ quotes :
                   /\ q.quoteSignature = cq'.quoteSignature
                   /\ q.hash = cq'.normalizedHash /\ q.createdAt = now
       /\ (co'.n # co.n /\ co'.code = 200) =>
             \A p \in quotePointers :
                ( /\ p.sig = co'.sig
                  /\ \E q \in quotes : q.quoteSignature = p.sig /\ q.hash = p.normalizedHash )
                => /\ co'.quote.createdAt >= p.quoteCreatedAt
                   /\ \A q \in quotes : q.hash = p.normalizedHash =>
                         q.createdAt <= co'.quote.createdAt
                   /\ (co'.quote.quoteSignature = co'.sig)
                         <=> (co'.quote.createdAt = p.quoteCreatedAt)
      ]_vars

\* C17 witness: the same cart was quoted twice, both records are stored, and
\* resolving the first signature returned the second quote.
C17_Witness ==
    /\ co.code = 200
    /\ co.quote.quoteSignature # co.sig
    /\ \E q1, q2 \in quotes :
          /\ q1.hash = q2.hash /\ q1.createdAt < q2.createdAt
          /\ q1.quoteSignature = co.sig /\ q2 = co.quote

\* C17 as first stated: resolving a signature yields the quote instance that
\* was created with it.
C17_Original ==
    [][(co'.n # co.n /\ co'.code = 200) =>
          \A p \in quotePointers :
             ( /\ p.sig = co'.sig
               /\ \E q \in quotes : q.quoteSignature = p.sig /\ q.hash = p.normalizedHash )
             => /\ co'.quote.quoteSignature = co'.sig
                /\ co'.quote.createdAt = p.quoteCreatedAt
      ]_vars

\* C18: a resolved signature yields a stored quote of the pointer's hash than
\* which none of that hash was created later, and no step other than
\* CreateQuote changes a stored quote record or a signature pointer.
C18_LatestQuoteIsAuthoritative ==
    [][/\ (co'.n # co.n /\ co'.code = 200) =>
             /\ co'.quote \in quotes
             /\ \E p \in quotePointers :
                   p.sig = co'.sig /\ p.normalizedHash = co'.quote.hash
             /\ \A q \in quotes : q.hash = co'.quote.hash =>
                   q.createdAt <= co'.quote.createdAt
       /\ cq'.n = cq.n => (quotes' = quotes /\ quotePointers' = quotePointers)
      ]_vars

\* C18 witness: two quotes of one cart made at different times are stored and
\* a checkout-session request got the later one.
C18_Witness ==
    /\ co.code = 200 /\ co.quote \in quotes
    /\ \E q \in quotes : q.hash = co.quote.hash /\ q.createdAt < co.quote.createdAt
    /\ \A q \in quotes : q.createdAt <= co.quote.createdAt

\* C28: the status of every checkout session record, quote-to-session item
\* and session-to-quote pointer alike, is one of created, completed, expired,
\* failed, pending, canceled.
C28_SessionStatusInDomain ==
    /\ \A i \in sessionItems :
          i.status \in {"created", "completed", "expired", "failed", "pending", "canceled"}
    /\ \A p \in pointerItems :
          p.status \in {"created", "completed", "expired", "failed", "pending", "canceled"}

\* C21: an Order Snapshot written by the webhook is filed under the metadata
\* user identifier of its session when there is one and under the customer
\* e-mail address otherwise: its partition key and its userId are that value.
C21_OrderFiledUnderOwner ==
    \A o \in orders :
        o.source = "" =>
            /\ o.pk = RawOwner(SessionData(o.stripeSessionId))
            /\ o.userId = RawOwner(SessionData(o.stripeSessionId))

\* C22: materialization for a completed session that has neither a metadata
\* user identifier nor a customer e-mail address writes nothing and does not
\* fail: the webhook's materializer returns no order number and the delivery
\* is answered with 200 and no order number; the sweep counts the session as
\* skipped, not as an error; no order of the webhook or of the sweep is ever
\* stored for such a session.
C22_NoOwnerNoOrder ==
    [][/\ \A w \in Workers :
             ( /\ wh[w].pc \in {"order", "record"} /\ wh'[w].pc # wh[w].pc
               /\ wh[w].ev.type \in COMPLETION_EVENTS
               /\ RawOwner(SessionData(wh[w].ev.sid)) = <<>> )
             => /\ orders' = orders
                /\ wh'[w].snap = <<>>
                /\ wh'[w].pc = "done" =>
                       wh'[w].resp.code = 200 /\ wh'[w].resp.orderNumber = <<>>
       /\ \A k \in Sweepers :
             ( /\ sw[k].pc = "iter" /\ sw'[k].processed = sw[k].processed + 1
               /\ RawOwner(SessionData(sw[k].listing[sw[k].processed + 1])) = <<>> )
             => /\ orders' = orders
                /\ sw'[k].pc = "iter"
                /\ sw'[k].skipped = sw[k].skipped + 1
                /\ sw'[k].created = sw[k].created
                /\ sw'[k].errors = sw[k].errors
       /\ \A o \in orders' :
             o.source \in {"", "nightly_sync"} =>
                 RawOwner(SessionData(o.stripeSessionId)) # <<>>
      ]_vars

\* C22 witness: the completion event of the session without an owner was
\* answered, and a sweep run has taken that session from its listing.
C22_Witness ==
    /\ \E w \in Workers :
          /\ wh[w].pc = "done" /\ wh[w].ev.sid = SidD
          /\ wh[w].ev.type \in COMPLETION_EVENTS /\ wh[w].resp.code = 200
    /\ \E k \in Sweepers : SidD \in ProcessedBy(sw[k]) /\ sw[k].skipped >= 1

\* C23: the order number of a session id is "BC-" followed by the last 8
\* alphanumeric characters of the id, uppercased; when the id has no
\* alphanumeric character the suffix is a non-empty number; the order number
\* is never the bare prefix.  For the webhook's and for the sweep's function.
C23_OrderNumberFromLastAlnum ==
    norm.pc = "number" =>
        LET alnum == StripNonAlnumUpper(UpperSeq(norm.items))
        IN  \A number \in {norm.out, norm.outOther} :
               /\ Len(number) > Len(OrderPrefix)
               /\ FirstN(number, Len(OrderPrefix)) = OrderPrefix
               /\ alnum # <<>> =>
                      number = OrderPrefix \o LastN(alnum, OrderSuffixLen)
               /\ alnum = <<>> =>
                      \A i \in (Len(OrderPrefix) + 1)..Len(number) : IsDigit(number[i])

\* C24: the happy path.  A quote was made, checkout-create-session opened a
\* session for its signature, and the one checkout.session.completed event of
\* that session is delivered; the materializer is reached within the
\* processing budget and its put succeeds.  Then the store holds exactly one
\* Order Snapshot of the session, with status completed and the processor's
\* total as amount, and the delivery is answered with 200 and an order number
\* that starts with BC-.
C24_HappyPathMakesOneOrder ==
    [][\A w \in Workers :
          ( /\ wh[w].ev.type = "checkout.session.completed"
            /\ wh[w].ev.sid \in {r.sid : r \in opened} )
          => /\ ( /\ wh[w].pc = "order" /\ wh'[w].pc = "record"
                  /\ now - wh[w].start < MAX_PROCESSING_TIME_SECONDS
                  /\ faults' = faults )
                => /\ Len(wh'[w].snap) > Len(OrderPrefix)
                   /\ FirstN(wh'[w].snap, Len(OrderPrefix)) = OrderPrefix
                   /\ Cardinality({o \in orders' :
                                     o.stripeSessionId = wh[w].ev.sid}) = 1
                   /\ \A o \in orders' :
                         o.stripeSessionId = wh[w].ev.sid =>
                             /\ o.status = "completed"
                             /\ o.amount = SessionData(wh[w].ev.sid).amount
                             /\ o.orderNumber = wh'[w].snap
             /\ (wh[w].pc = "record" /\ wh'[w].pc = "done")
                => /\ wh'[w].resp.code = 200
                   /\ wh'[w].resp.orderNumber = wh[w].snap
                   /\ orders' = orders
      ]_vars

\* C24 witness: the completion event of a session opened for a stored quote
\* was answered with an order number and the store holds the session's order.
C24_Witness ==
    \E w \in Workers, r \in opened :
        /\ wh[w].pc = "done" /\ wh[w].ev.sid = r.sid
        /\ wh[w].ev.type = "checkout.session.completed"
        /\ \E q \in quotes : q.quoteSignature = r.quoteSignature
        /\ wh[w].resp.code = 200 /\ wh[w].resp.orderNumber # <<>>
        /\ \E o \in orders : o.stripeSessionId = r.sid /\ o.amount = r.amount

\* C25: an Order Snapshot that the webhook wrote with a quote signature
\* whose quote is in the store carries the pricingSummary of that quote.
C25_OrderCarriesQuotePricing ==
    \A o \in orders :
        (o.source = "" /\ o.quoteSignature # <<>>) =>
            \A q \in quotes :
                q.quoteSignature = o.quoteSignature =>
                    o.pricingSummary = PricingSummary(q)

\* C26: when a delivery about a session that checkout-create-session opened
\* has been ingested and no call has failed, the two records that
\* checkout-create-session wrote for the session, keyed by the session id it
\* generated, carry the status derived from the event.
C26_LinkerRecordsCarryEventStatus ==
    [][\A w \in Workers :
          (wh[w].pc = "record" /\ wh'[w].pc = "done" /\ faults' = 0) =>
              \A r \in opened :
                  r.sid = wh[w].ev.sid =>
                      /\ \A i \in sessionItems' :
                            i.sid = r.sessionId =>
                                i.status = DerivedStatus(wh[w].ev.type)
                      /\ \A p \in pointerItems' :
                            p.sid = r.sessionId =>
                                p.status = DerivedStatus(wh[w].ev.type)
      ]_vars

\* C27: only a checkout-session request adds a session record: during the
\* deliveries about a session that checkout-create-session opened, the keys of
\* the quote-to-session items and of the session-to-quote pointers stay as
\* they were, at most a status changes.
C27_IngestorCreatesNoSessionRecord ==
    [][\A w \in Workers :
          (wh[w].pc \in {"session", "pointer"} /\ wh'[w].pc # wh[w].pc
             /\ wh[w].ev.sid \in {r.sid : r \in opened}) =>
              /\ {<<i.sig, i.sid>> : i \in sessionItems'} \subseteq
                     {<<i.sig, i.sid>> : i \in sessionItems}
              /\ {p.sid : p \in pointerItems'} \subseteq {p.sid : p \in pointerItems}
      ]_vars

\* C29: a stored Event Record never changes: every step leaves every Event
\* Record in the store as it is.
C29_EventRecordImmutable ==
    [][\A r \in eventRecs : r \in eventRecs']_vars

\* C30: a stored Order Snapshot never changes, except when the order lookup
\* caches what it fetched from the processor: every other step leaves every
\* Order Snapshot in the store as it is.
C30_OrderSnapshotImmutable ==
    [][~(go.pc = "cache" /\ go'.pc = "done") =>
          \A o \in orders : o \in orders']_vars

\* C31: when only sweep runs write orders, two of them overlapping in any
\* way, the store never holds more than one Order Snapshot of a session.
C31_OverlappingSweepsOneOrder ==
    \A sid \in DOMAIN stripe : Cardinality(OrdersForSession(orders, sid)) <= 1

\* C31 witness: two instances are running at the same time and each of them
\* has written the order of the same session.
C31_Witness ==
    \E sid \in DOMAIN stripe :
        /\ OrdersForSession(orders, sid) # {}
        /\ \A k \in Sweepers :
              /\ sw[k].pc \in {"iter", "finish"} /\ sw[k].created >= 1
              /\ sid \in ProcessedBy(sw[k])
              /\ GenerateOrderNumberSync(sid, now) \in Range(sw[k].createdOrders)

\* C32: a session that is complete and has an owner, at a moment when no run
\* is in progress, a further run is still to start and no call fails any
\* more, eventually has an Order Snapshot.
C32_SweepEventuallyMaterializes ==
    \A sid \in AllSessionIds :
        ( /\ sid \in DOMAIN stripe /\ stripe[sid] = "complete"
          /\ RawOwner(SessionData(sid)) # <<>>
          /\ sw["s1"].pc = "idle" /\ sweeps < MaxSweeps /\ faults = MaxFaults )
        ~> (OrdersForSession(orders, sid) # {})

\* the sessions of a run's listing that lie within its cap (lines 445-447)
CappedSessions(s) ==
    {s.listing[i] : i \in {j \in DOMAIN s.listing : j <= s.maxSessions}}

\* C33: a sweep run attempts materialization for at most maxSessions sessions.
\* At every point of a run processed <= maxSessions, the summary it returns
\* reports processed <= maxSessions, the session it is about to write is one
\* of the first maxSessions of its listing, and every order a step of the run
\* adds belongs to one of those sessions.
C33_SweepCapRespected ==
    [][ /\ \A k \in Sweepers :
             /\ sw'[k].processed <= sw'[k].maxSessions
             /\ sw'[k].pc = "done" => sw'[k].result.processed <= sw'[k].maxSessions
             /\ sw'[k].cur # <<>> => sw'[k].cur \in CappedSessions(sw'[k])
             /\ ProcessedBy(sw'[k]) \subseteq CappedSessions(sw'[k])
        /\ \A k \in Sweepers :
             sw[k].pc = "write" /\ sw'[k].pc = "iter" =>
                 \A o \in orders' \ orders :
                     o.stripeSessionId \in CappedSessions(sw[k]) ]_vars
\* a run whose listing is longer than its cap has finished after taking
\* exactly maxSessions sessions and creating an order
C33_Witness ==
    \E k \in Sweepers :
        /\ sw[k].pc = "done"
        /\ Len(sw[k].listing) > sw[k].maxSessions
        /\ sw[k].result.processed = sw[k].maxSessions
        /\ sw[k].result.created >= 1
        /\ \E o \in orders : o.stripeSessionId = sw[k].listing[1]

\* C39: when the sweep's existence query fails with a storage error the
\* session is treated as already having an order.  The failing query is the
\* one step of a run that consumes a fault and leaves the run in its loop; in
\* that step nothing is written to the store, the session is counted as
\* processed and skipped (not created, not an error), and the run goes on to
\* the next session of its listing.
C39_ExistenceQueryFailureSkips ==
    [][ \A k \in Sweepers :
          ( /\ sw[k].pc = "iter" /\ sw'[k] # sw[k] /\ sw'[k].pc # "finish"
            /\ faults' = faults + 1 )
          => /\ store' = store
             /\ sw'[k].pc = "iter" /\ sw'[k].cur = <<>>
             /\ sw'[k].processed = sw[k].processed + 1
             /\ sw'[k].skipped = sw[k].skipped + 1
             /\ sw'[k].created = sw[k].created
             /\ sw'[k].createdOrders = sw[k].createdOrders
             /\ sw'[k].errors = sw[k].errors ]_vars
\* a run that is not a dry run took two sessions that both have an owner:
\* one has no order and was skipped, which only a failed existence query
\* explains, and the run went on to create the order of the other
C39_Witness ==
    \E k \in Sweepers :
        /\ ~sw[k].dryRun /\ faults = MaxFaults
        /\ sw[k].processed = 2 /\ sw[k].skipped = 1 /\ sw[k].created = 1
        /\ sw[k].errors = 0
        /\ \A i \in 1..2 : SyncOwner(SessionData(sw[k].listing[i])) # <<>>
        /\ OrdersForSession(orders, sw[k].listing[1]) = {}
        /\ OrdersForSession(orders, sw[k].listing[2]) # {}

\* C34 (as amended): which orders a sweep run creates or skips depends only
\* on the processor's sessions and the orders present, never on Sync State.
\* The window of a run is now - lookback .. now and its listing is the
\* processor's complete sessions created in that window; a session taken
\* without a failing call is skipped exactly when it has no owner or its
\* owner's first order is the session's; the order written is the one built
\* from the session; the summary is the run's counters.  Sync State is only
\* written, at the end of a run: a run that is not a dry run and whose
\* put_item succeeds replaces it with its own counts and window bounds, any
\* other run leaves it as it was.
C34_SweepIgnoresSyncState ==
    [][ /\ \A k \in Sweepers :
             /\ (sw[k].pc = "idle" /\ sw'[k].pc = "iter") =>
                    /\ sw'[k].nowTs = now
                    /\ \E h \in LookbackChoices :
                           sw'[k].sinceTs = now - h * SecondsPerHour
                    /\ Range(sw'[k].listing) =
                           ListedSessions(stripe, sw'[k].sinceTs, now)
             /\ ( /\ sw[k].pc = "iter" /\ faults' = faults
                  /\ sw'[k].processed = sw[k].processed + 1 ) =>
                    ( sw'[k].skipped = sw[k].skipped + 1
                      <=> SyncDecision(orders, sw[k].listing[sw[k].processed + 1],
                                       TRUE) = "skip" )
             /\ (sw[k].pc = "write" /\ sw'[k].pc = "iter" /\ faults' = faults) =>
                    /\ orders' = PutOrder(orders,
                                          SyncOrderItem(sw[k].cur, sw[k].startedAt))
                    /\ sw'[k].created = sw[k].created + 1
             /\ (sw[k].pc = "finish" /\ sw'[k].pc = "done") =>
                    /\ sw'[k].result = SyncResult(sw[k])
                    /\ syncState' = IF ~sw[k].dryRun /\ faults' = faults
                                     THEN SyncStateItem(sw[k]) ELSE syncState
        /\ (\A k \in Sweepers : sw[k].pc # "finish") => syncState' = syncState
      ]_vars

\* C34 witness: a run that is not a dry run started while Sync State held the
\* record of an earlier run with another window, created an order, and is
\* about to persist its own record
C34_Witness ==
    \E k \in Sweepers :
        /\ sw[k].pc = "finish" /\ ~sw[k].dryRun
        /\ sw[k].created >= 1 /\ sw[k].skipped >= 1
        /\ syncState.written
        /\ syncState.lastLookbackStart # sw[k].sinceTs
        /\ syncState.lastSyncCreated # sw[k].created

\* C34 as first stated: every run that is not a dry run overwrites Sync
\* State, whether or not its put_item succeeds.
C34_Original ==
    [][ /\ \A k \in Sweepers :
             /\ (sw[k].pc = "idle" /\ sw'[k].pc = "iter") =>
                    /\ sw'[k].nowTs = now
                    /\ \E h \in LookbackChoices :
                           sw'[k].sinceTs = now - h * SecondsPerHour
                    /\ Range(sw'[k].listing) =
                           ListedSessions(stripe, sw'[k].sinceTs, now)
             /\ ( /\ sw[k].pc = "iter" /\ faults' = faults
                  /\ sw'[k].processed = sw[k].processed + 1 ) =>
                    ( sw'[k].skipped = sw[k].skipped + 1
                      <=> SyncDecision(orders, sw[k].listing[sw[k].processed + 1],
                                       TRUE) = "skip" )
             /\ (sw[k].pc = "write" /\ sw'[k].pc = "iter" /\ faults' = faults) =>
                    /\ orders' = PutOrder(orders,
                                          SyncOrderItem(sw[k].cur, sw[k].startedAt))
                    /\ sw'[k].created = sw[k].created + 1
             /\ (sw[k].pc = "finish" /\ sw'[k].pc = "done") =>
                    /\ sw'[k].result = SyncResult(sw[k])
                    /\ ~sw[k].dryRun => syncState' = SyncStateItem(sw[k])
        /\ (\A k \in Sweepers : sw[k].pc # "finish") => syncState' = syncState
      ]_vars
\* C35: the webhook path and the sweep path file the order of a session under
\* the same owner key and give it the same order number, for every user
\* identifier and email: any two Order Snapshots of one session written by
\* these two paths (the webhook's item carries no source, the sweep's carries
\* "nightly_sync") have the same partition key, the same userId and the same
\* orderNumber.
C35_PathsAgreeOnOwnerAndNumber ==
    \A o1, o2 \in {o \in orders : o.source \in {"", "nightly_sync"}} :
        o1.stripeSessionId = o2.stripeSessionId =>
            /\ o1.pk = o2.pk /\ o1.userId = o2.userId
            /\ o1.orderNumber = o2.orderNumber

\* C36: an Order Snapshot is only ever persisted for a checkout session that
\* the processor reports as completed: every order in the store, whichever
\* path wrote it (webhook, sweep or on-demand lookup), belongs to a session
\* whose processor status is "complete".
C36_SnapshotOnlyForCompletedSession ==
    \A o \in orders :
        /\ o.stripeSessionId \in DOMAIN stripe
        /\ stripe[o.stripeSessionId] = "complete"

C37_StatusLastWriterWins ==
    [][\A w \in Workers :
          /\ (wh[w].pc = "session" /\ wh'[w].pc # "session" /\ wh'[w].qsig # <<>>
                 /\ faults' = faults) =>
                 /\ wh'[w].pc = "pointer"
                 /\ \E i \in sessionItems' : i.sig = wh'[w].qsig /\ i.sid = wh[w].ev.sid
                 /\ \A i \in sessionItems' :
                        (i.sig = wh'[w].qsig /\ i.sid = wh[w].ev.sid) =>
                            i.status = DerivedStatus(wh[w].ev.type)
          /\ (wh[w].pc = "pointer" /\ wh'[w].pc = "order"
                 /\ faults' = faults) =>
                 /\ \E p \in pointerItems' : p.sid = wh[w].ev.sid
                 /\ \A p \in pointerItems' :
                        p.sid = wh[w].ev.sid =>
                            p.status = DerivedStatus(wh[w].ev.type)
      ]_vars

\* C37 witness: no call has failed, the completion event of a session is
\* recorded and the session has its order, and the session's status is the
\* "expired" of an event ingested afterwards
C37_Witness ==
    /\ faults = 0
    /\ \E i \in sessionItems, r \in eventRecs, p \in pointerItems :
          /\ r.sessionId = i.sid /\ r.quoteSignature = i.sig /\ p.sid = i.sid
          /\ r.status = "completed" /\ r.orderCreated
          /\ i.status = "expired" /\ p.status = "expired"
          /\ OrdersForSession(orders, i.sid) # {}

\* C37 as first stated: the status equals the derived status after every
\* ingested event with a resolvable quote signature, whether or not the
\* update calls succeed.
C37_Original ==
    [][\A w \in Workers :
          /\ (wh[w].pc = "session" /\ wh'[w].pc # "session" /\ wh'[w].qsig # <<>>) =>
                 /\ wh'[w].pc = "pointer"
                 /\ \E i \in sessionItems' : i.sig = wh'[w].qsig /\ i.sid = wh[w].ev.sid
                 /\ \A i \in sessionItems' :
                        (i.sig = wh'[w].qsig /\ i.sid = wh[w].ev.sid) =>
                            i.status = DerivedStatus(wh[w].ev.type)
          /\ (wh[w].pc = "pointer" /\ wh'[w].pc = "order") =>
                 /\ \E p \in pointerItems' : p.sid = wh[w].ev.sid
                 /\ \A p \in pointerItems' :
                        p.sid = wh[w].ev.sid =>
                            p.status = DerivedStatus(wh[w].ev.type)
      ]_vars
\* C38 (as amended): when a completion delivery ends its materialization step
\* without an order number (no owner, order write failure, time budget
\* exhausted), the response is 200 without an orderNumber and, when
\* record_event succeeds, the Event Record of the event says orderCreated =
\* false and carries no orderNumber; a later delivery that finds the record
\* is answered from it and writes nothing.
C38_FailedMaterializationIsRecorded ==
    [][\A w \in Workers :
          /\ ( /\ wh[w].pc = "record" /\ wh'[w].pc = "done"
               /\ wh[w].ev.type \in COMPLETION_EVENTS /\ wh[w].snap = <<>> )
             => /\ wh'[w].resp.code = 200
                /\ wh'[w].resp.orderNumber = <<>>
                /\ orders' = orders
                /\ faults' = faults =>
                       /\ EventRecordOf(eventRecs', wh[w].ev) # {}
                       /\ \A r \in EventRecordOf(eventRecs', wh[w].ev) :
                              ~r.orderCreated /\ r.orderNumber = <<>>
                /\ faults' # faults => eventRecs' = eventRecs
          /\ ( /\ wh[w].pc = "idle" /\ wh'[w].pc # "idle" /\ wh'[w].kind = "ok"
               /\ wh'[w].dedup # "error"
               /\ \E r \in EventRecordOf(eventRecs, wh'[w].ev) : ~r.orderCreated )
             => /\ wh'[w].pc = "done" /\ wh'[w].resp.code = 200
                /\ wh'[w].resp.orderNumber = <<>>
                /\ store' = store
      ]_vars

\* C38 witness: the completion event of a session that has an owner is
\* recorded with orderCreated = false, the session has no order, and a later
\* delivery of the event was answered 200 from the record
C38_Witness ==
    \E w \in Workers :
        /\ wh[w].pc = "done" /\ wh[w].dedup = "present" /\ wh[w].resp.code = 200
        /\ wh[w].ev.type \in COMPLETION_EVENTS
        /\ WebhookOwner(SessionData(wh[w].ev.sid)) # <<>>
        /\ \E r \in EventRecordOf(eventRecs, wh[w].ev) : ~r.orderCreated
        /\ OrdersForSession(orders, wh[w].ev.sid) = {}

\* C38 as first stated: once a completion event is recorded with orderCreated
\* = false for a session that has no order, the webhook path never creates
\* an order of that session.
C38_Original ==
    [][\A r \in eventRecs :
          ( /\ r.eventType \in COMPLETION_EVENTS /\ ~r.orderCreated
            /\ OrdersForSession(orders, r.sessionId) = {} )
          => \A o \in orders' \ orders :
                 o.stripeSessionId = r.sessionId => o.source # ""
      ]_vars

====
